---- MODULE Spec2Model ----
(***************************************************************************)
(* A model of the termenu menu engine: the selection window               *)
(* (termenu2.Termenu and termenu.app.TermenuAdapter) and the frame loop   *)
(* of termenu.app.AppMenu.                                                 *)
(*                                                                         *)
(* Python indices are kept 0-based (cursor, scroll); TLA+ sequences are    *)
(* 1-based, so the active option is entry scroll + cursor + 1.             *)
(***************************************************************************)
EXTENDS Integers, Sequences, FiniteSets, TLC

(***************************************************************************)
(* Bounds of the model                                                     *)
(***************************************************************************)
\* longest filter buffer the user types
MaxText == 3
\* largest height handed to reset() / Termenu()
MaxHeight == 2
\* longest option list and largest height of the cursor-move specification
MaxOptions == 6
MaxMoveHeight == 4
\* deepest nesting of frames
MaxDepth == 3
\* longest _all_menus list
MaxStack == 4
\* last instant of the clock, and the longest configured timeout
MaxTime == 4
MaxTimeout == 2
\* number of times a frame is displayed again after a refresh
MaxRefreshes == 2
\* largest value of RawTerminal._opened
MaxOpened == 3
\* most bytes read from stdin in one batch
MaxBatch == 4
\* longest run of one cursor key
MaxPresses == 8
\* most pieces of markup in one string
MaxPieces == 3
\* deepest nesting of RawTerminal.closed() scopes
MaxReleased == 2

Min(a, b) == IF a < b THEN a ELSE b

Max(a, b) == IF a > b THEN a ELSE b

Range(s) == {s[i] : i \in DOMAIN s}

(***************************************************************************)
(* Text helpers: str.lower, str.split, `in`, str.join                      *)
(***************************************************************************)
\* the characters a user types into the filter: one lower-case letter, one
\* upper-case letter and the separator
KeyChars == {"a", "B", ","}

FILTER_SEPARATOR == ","

LowerChar(c) == IF c = "B" THEN "b" ELSE IF c = "A" THEN "a" ELSE c

Lower(s) == [i \in 1..Len(s) |-> LowerChar(s[i])]

\* needle in hay (Python's substring test)
Contains(hay, needle) ==
    \E i \in 0..(Len(hay) - Len(needle)) :
        SubSeq(hay, i + 1, i + Len(needle)) = needle

RECURSIVE SplitFrom(_, _, _)
\* segments of s from position i on, cur being the segment collected so far
SplitFrom(s, i, cur) ==
    IF i > Len(s) THEN <<cur>>
    ELSE IF s[i] = FILTER_SEPARATOR THEN <<cur>> \o SplitFrom(s, i + 1, <<>>)
    ELSE SplitFrom(s, i + 1, Append(cur, s[i]))

\* s.split(FILTER_SEPARATOR): "" gives [""], "a," gives ["a", ""]
Split(s) == SplitFrom(s, 1, <<>>)

RECURSIVE Join(_)
\* FILTER_SEPARATOR.join(parts)
Join(parts) ==
    IF Len(parts) = 0 THEN <<>>
    ELSE IF Len(parts) = 1 THEN parts[1]
    ELSE parts[1] \o <<FILTER_SEPARATOR>> \o Join(Tail(parts))

\* set(filter(None, "".join(text or []).lower().split(",")))
Terms(txt) == {t \in Range(Split(Lower(txt))) : t # <<>>}

(***************************************************************************)
(* Options                                                                 *)
(***************************************************************************)
\* result of "no value" (Python None) and of the synthetic placeholder entry
NoResult == 0
PlaceholderResult == -1

\* what an item source hands to the window: text, result and attributes
Item(txt, res, always, mark, sel) ==
    [text |-> txt, result |-> res, showAlways |-> always,
     markable |-> mark, selectable |-> sel]

\* _Option.__init__: filter_text is the lower-cased text, nothing is selected
MakeOption(item) ==
    [text |-> item.text, result |-> item.result, filter_text |-> Lower(item.text),
     showAlways |-> item.showAlways, markable_attr |-> item.markable,
     selectable |-> item.selectable, selected |-> FALSE]

\* _make_option_objects
MakeOptionObjects(items) == [i \in 1..Len(items) |-> MakeOption(items[i])]

\* _Option.markable
Markable(o) == o.markable_attr /\ o.selectable


(***************************************************************************)
(* State                                                                   *)
(***************************************************************************)
VARIABLES
    \* ---- the selection window (Termenu / TermenuAdapter fields) ----
    allOptions,       \* _allOptions: the option objects of the last reset
    options,          \* options: the visible list, as indices into allOptions;
                      \* 0 stands for the synthetic placeholder entry
    phSelected,       \* the selected flag of the placeholder entry
    cursor,           \* cursor row inside the window, 0-based
    scroll,           \* index of the first displayed entry, 0-based
    height,           \* self.height
    multiselect,      \* self.multiselect
    text,             \* self.text: the filter buffer ...
    text_none,        \* ... and whether self.text is None
    filter_mode_idx,  \* index into FILTER_MODES
    is_empty,         \* self.is_empty
    raised,           \* exception a window operation ended with ("" for none)
    lastOp            \* the window operation that produced this state

winVars == <<allOptions, options, phSelected, cursor, scroll, height, multiselect,
             text, text_none, filter_mode_idx, is_empty, raised, lastOp>>

VARIABLES
    \* ---- the navigator (AppMenu class state and the frames being run) ----
    all_menus,        \* AppMenu._all_menus: the navigation stack, frame ids
    all_titles,       \* AppMenu._all_titles: the breadcrumb titles
    frames,           \* the frames whose __init__ is running, outermost first
    sig,              \* the exception in flight between frames
    escaped,          \* kind of the signal that left the outermost frame
    origin,           \* history: the last signal raised and where
    ended,            \* history: the frame invocation that ended in the last step
    winch             \* the SIGWINCH handler, and the handler the running show saved

navVars == <<all_menus, all_titles, frames, sig, escaped, origin, ended, winch>>

VARIABLES
    \* ---- one frame's window deadline (TermenuAdapter.timeout) ----
    clock,            \* time.time()
    app_timeout,      \* the frame's `timeout` attribute (0: none)
    tm_timeout,       \* TermenuAdapter.timeout: the deadline, or NoTimeout
    tm_pc,            \* "idle", "show" (waiting for a key), "refresh", "ended"
    tm_refreshes,     \* how often the menu was displayed again
    tm_hist           \* history: what reached the window and what it raised

tmVars == <<clock, app_timeout, tm_timeout, tm_pc, tm_refreshes, tm_hist>>

VARIABLES
    \* ---- one RawTerminal and the terminal it drives ----
    term,             \* the terminal: lflag bits of stdin, O_NONBLOCK of stdin/stdout
    rt_blocking,      \* RawTerminal._blocking
    rt_opened,        \* RawTerminal._opened
    rt_saved,         \* _oldterm, _old_in, _old_out (Unset before the first capture)
    rt_scopes,        \* history: opens that returned and are not closed yet
    rt_prior,         \* history: the terminal before the RawTerminal touched it
    rt_last,          \* history: what the last open or close call did
    rt_released,      \* history: per closed() scope entered and not left, the
                      \* terminal and the counts when it was entered
    rt_left           \* history: the same for the closed() scope just left

rtVars == <<term, rt_blocking, rt_opened, rt_saved, rt_scopes, rt_prior, rt_last,
            rt_released, rt_left>>

VARIABLES
    \* ---- keyboard_listener: the key table and the pending bytes ----
    kb_table,         \* ANSI_SEQUENCES: <<[name, seq]>> in insertion order
    kb_sequence,      \* `sequence`: the bytes read and not yet decoded
    kb_last,          \* history: what the last pass of `while sequence` did
    kb_poll           \* history: the bytes read and the bytes the events
                      \* accounted for since the last select()

kbVars == <<kb_table, kb_sequence, kb_last, kb_poll>>

VARIABLES
    \* ---- history of the cursor keys ----
    run               \* the current run of one cursor key: key, count, start

mvVars == <<run>>

VARIABLES
    \* ---- the locals of one frame's _menu_loop that reach its window ----
    loop,             \* self.refresh, and `selection` (given: is not None)
    loop_default      \* `default`: the result value handed to menu.show

lpVars == <<loop, loop_default>>

VARIABLES
    \* ---- one Colorized string and the last slice taken of it ----
    ct_text,          \* the markup the Colorized was made from (str.__str__)
    ct_obj,           \* the Colorized: its tokens and its `uncolored`
    ct_slice          \* history: the last __getitem__(slice(i, j)) and its result

clVars == <<ct_text, ct_obj, ct_slice>>

VARIABLES
    \* ---- one basic Termenu (termenu2) ----
    bt                \* its options, height, cursor, scroll and marks; history:
                      \* the arguments it was constructed with

btVars == <<bt>>

\* the components added after the decoder
moreVars == <<mvVars, lpVars, clVars, btVars>>

\* the state of the components added to the window and the navigator
extVars == <<tmVars, rtVars, kbVars, moreVars>>

vars == <<winVars, navVars, extVars>>

FILTER_MODES == <<"and", "nand", "or", "nor">>

\* the window object as one value, so that methods compose
Win ==
    [allOptions |-> allOptions, options |-> options, phSelected |-> phSelected,
     cursor |-> cursor, scroll |-> scroll, height |-> height,
     multiselect |-> multiselect, text |-> text, text_none |-> text_none,
     filter_mode_idx |-> filter_mode_idx, is_empty |-> is_empty, raised |-> raised]

\* the window after an operation `op` that left it as w
Install(w, op) ==
    /\ allOptions' = w.allOptions
    /\ options' = w.options
    /\ phSelected' = w.phSelected
    /\ cursor' = w.cursor
    /\ scroll' = w.scroll
    /\ height' = w.height
    /\ multiselect' = w.multiselect
    /\ text' = w.text
    /\ text_none' = w.text_none
    /\ filter_mode_idx' = w.filter_mode_idx
    /\ is_empty' = w.is_empty
    /\ raised' = w.raised
    /\ lastOp' = op

\* the window is w and was produced by `op` (used by the initial predicates)
IsWindow(w, op) ==
    /\ allOptions = w.allOptions
    /\ options = w.options
    /\ phSelected = w.phSelected
    /\ cursor = w.cursor
    /\ scroll = w.scroll
    /\ height = w.height
    /\ multiselect = w.multiselect
    /\ text = w.text
    /\ text_none = w.text_none
    /\ filter_mode_idx = w.filter_mode_idx
    /\ is_empty = w.is_empty
    /\ raised = w.raised
    /\ lastOp = op

\* TermenuAdapter.__init__: no options yet, is_empty is True
NewWindow ==
    [allOptions |-> <<>>, options |-> <<>>, phSelected |-> FALSE,
     cursor |-> 0, scroll |-> 0, height |-> 1, multiselect |-> FALSE,
     text |-> <<>>, text_none |-> TRUE, filter_mode_idx |-> 0,
     is_empty |-> TRUE, raised |-> ""]

\* the placeholder entry " (No match for ...)": a plain _Option without attrs
Placeholder(sel) ==
    [text |-> <<>>, result |-> PlaceholderResult, filter_text |-> <<>>,
     showAlways |-> FALSE, markable_attr |-> TRUE, selectable |-> TRUE,
     selected |-> sel]

\* self.options[k - 1]
Opt(w, k) ==
    IF w.options[k] = 0 THEN Placeholder(w.phSelected) ELSE w.allOptions[w.options[k]]

\* scroll + cursor is an index of self.options
ActiveValid(w) == w.scroll + w.cursor + 1 \in 1..Len(w.options)

\* _get_active_option()
GetActiveOption(w) == Opt(w, w.scroll + w.cursor + 1)

(***************************************************************************)
(* Cursor moves                                                            *)
(***************************************************************************)
\* _on_down wrapping round to the first option after the last one
OnDownWraps(w) ==
    LET h == Min(w.height, Len(w.options)) IN
    IF w.cursor < h - 1 THEN [w EXCEPT !.cursor = @ + 1]
    ELSE IF w.scroll + h < Len(w.options) THEN [w EXCEPT !.scroll = @ + 1]
    ELSE [w EXCEPT !.cursor = 0, !.scroll = 0]

\* Termenu._on_down
OnDown(w) ==
    LET h == Min(w.height, Len(w.options)) IN
    IF w.cursor < h - 1 THEN [w EXCEPT !.cursor = @ + 1]
    ELSE IF w.scroll + h < Len(w.options) THEN [w EXCEPT !.scroll = @ + 1]
    ELSE w

\* Termenu._on_up
OnUp(w) ==
    IF w.cursor > 0 THEN [w EXCEPT !.cursor = @ - 1]
    ELSE IF w.scroll > 0 THEN [w EXCEPT !.scroll = @ - 1]
    ELSE w

\* _on_pageDown scrolling a full page without clamping at the end of the list
OnPageDownUnclamped(w) ==
    LET h == Min(w.height, Len(w.options)) IN
    IF w.cursor < h - 1 THEN [w EXCEPT !.cursor = h - 1]
    ELSE [w EXCEPT !.scroll = @ + h]

\* Termenu._on_pageDown
OnPageDown(w) ==
    LET h == Min(w.height, Len(w.options)) IN
    IF w.cursor < h - 1 THEN [w EXCEPT !.cursor = h - 1]
    ELSE IF w.scroll + h * 2 < Len(w.options) THEN [w EXCEPT !.scroll = @ + h]
    ELSE [w EXCEPT !.scroll = Len(w.options) - h]

\* Termenu._on_pageUp
OnPageUp(w) ==
    LET h == Min(w.height, Len(w.options)) IN
    IF w.cursor > 0 THEN [w EXCEPT !.cursor = 0]
    ELSE IF w.scroll - h >= 0 THEN [w EXCEPT !.scroll = @ - h]
    ELSE [w EXCEPT !.scroll = 0]

\* TermenuAdapter._on_end
OnEnd(w) ==
    LET h == Min(w.height, Len(w.options)) IN
    [w EXCEPT !.scroll = Len(w.options) - h, !.cursor = h - 1]

RECURSIVE Downs(_, _)
\* for i in range(n): self._on_down()
Downs(w, n) == IF n = 0 THEN w ELSE Downs(OnDown(w), n - 1)

\* TermenuAdapter._set_default
SetDefault(w, default) ==
    IF default = NoResult THEN w
    ELSE LET hits == {k \in 1..Len(w.options) : Opt(w, k).result = default} IN
         IF hits = {} THEN w
         ELSE LET index == (CHOOSE k \in hits : \A j \in hits : k <= j) - 1 IN
              Downs(w, index)

(***************************************************************************)
(* Filtering                                                               *)
(***************************************************************************)
\* the `pred` lambdas with "nand" negating any() instead of all()
PredNandNegatesAny(mode, texts, o) ==
    IF mode = "and" THEN \A t \in texts : Contains(o.filter_text, t)
    ELSE IF mode = "or" THEN \E t \in texts : Contains(o.filter_text, t)
    ELSE ~(\E t \in texts : Contains(o.filter_text, t))

\* the four `pred` lambdas of _refilter
Pred(mode, texts, o) ==
    IF mode = "and" THEN \A t \in texts : Contains(o.filter_text, t)
    ELSE IF mode = "nand" THEN ~(\A t \in texts : Contains(o.filter_text, t))
    ELSE IF mode = "or" THEN \E t \in texts : Contains(o.filter_text, t)
    ELSE ~(\E t \in texts : Contains(o.filter_text, t))

\* the filter loop of _refilter: which options become visible
Shown(mode, texts, o) == o.showAlways \/ texts = {} \/ Pred(mode, texts, o)

\* the cursor loop of _refilter: which visible option may become the active one
Matching(mode, texts, o) == ~o.showAlways /\ Pred(mode, texts, o)

\* the body of _refilter, inside the selection-preserving scope
RefilterBody(w) ==
    LET mode == FILTER_MODES[w.filter_mode_idx + 1]
        texts == Terms(w.text)
        all == [i \in 1..Len(w.allOptions) |-> i]
        vis == SelectSeq(all, LAMBDA i : Shown(mode, texts, w.allOptions[i]))
        hits == {k \in 1..Len(vis) : Matching(mode, texts, w.allOptions[vis[k]])}
    IN  IF hits # {}
        THEN [w EXCEPT !.options = vis, !.scroll = 0, !.phSelected = FALSE,
                       !.cursor = (CHOOSE k \in hits : \A j \in hits : k <= j) - 1,
                       !.is_empty = FALSE]
        ELSE [w EXCEPT !.options = Append(vis, 0), !.scroll = 0,
                       !.phSelected = FALSE, !.is_empty = TRUE]

\* for option in self.options: option.selected = option.result in prev_selected
MarkSelected(w, prev_selected) ==
    [w EXCEPT !.allOptions =
                 [i \in 1..Len(w.allOptions) |->
                     IF i \in Range(w.options)
                     THEN [w.allOptions[i] EXCEPT
                              !.selected = (w.allOptions[i].result \in prev_selected)]
                     ELSE w.allOptions[i]],
              !.phSelected = IF 0 \in Range(w.options)
                             THEN PlaceholderResult \in prev_selected
                             ELSE w.phSelected]

\* {o.result for o in self._allOptions if o.selected}
SelectedResults(w) ==
    {w.allOptions[i].result : i \in {j \in 1..Len(w.allOptions) : w.allOptions[j].selected}}

\* _selection_preserved(selection) entered in window w, `after` being the
\* window the body of the with block leaves when run from w; has_selection
\* is `selection is not None`
SelectionPreserved(w, has_selection, selection, after) ==
    IF w.is_empty THEN after
    ELSE IF ~ActiveValid(w) THEN [w EXCEPT !.raised = "IndexError"]
    ELSE LET prev_active == GetActiveOption(w).result
             prev_selected == IF has_selection THEN selection ELSE SelectedResults(w)
             marked == IF prev_selected # {} THEN MarkSelected(after, prev_selected)
                       ELSE after
         IN  SetDefault(marked, prev_active)

\* TermenuAdapter._refilter
Refilter(w) == SelectionPreserved(w, FALSE, {}, RefilterBody(w))

\* Termenu.__init__ taking the configured height as it is
TermenuInitUnclipped(w, items, h, ms) ==
    [w EXCEPT !.allOptions = MakeOptionObjects(items),
              !.options = [i \in 1..Len(items) |-> i],
              !.phSelected = FALSE,
              !.height = h,
              !.multiselect = ms,
              !.cursor = 0,
              !.scroll = 0]

\* Termenu.__init__ as reset() calls it: new option objects, cursor and
\* scroll at 0, height clipped to the option count
TermenuInit(w, items, h, ms) ==
    [w EXCEPT !.allOptions = MakeOptionObjects(items),
              !.options = [i \in 1..Len(items) |-> i],
              !.phSelected = FALSE,
              !.height = Min(h, Len(items)),
              !.multiselect = ms,
              !.cursor = 0,
              !.scroll = 0]

\* TermenuAdapter.reset
ResetWindow(w, items, h, ms, has_selection, selection) ==
    SelectionPreserved(w, has_selection, selection, TermenuInit(w, items, h, ms))

\* TermenuAdapter.show up to the key loop: _refilter, _set_default(default)
ShowWindow(w, default) ==
    LET r == Refilter(w) IN
    IF r.raised # "" THEN r ELSE SetDefault(r, default)

(***************************************************************************)
(* Key handling of the window                                              *)
(***************************************************************************)
\* flip / clear the selected flag of the visible entries in `which`
FlipVisible(w, which) ==
    [w EXCEPT !.allOptions =
                 [i \in 1..Len(w.allOptions) |->
                     IF \E k \in which : w.options[k] = i
                     THEN [w.allOptions[i] EXCEPT !.selected = ~@]
                     ELSE w.allOptions[i]],
              !.phSelected = IF \E k \in which : w.options[k] = 0 THEN ~@ ELSE @]

\* _on_key, key == "*" and self.multiselect: toggle every markable visible entry
OnStar(w) ==
    FlipVisible(w, {k \in 1..Len(w.options) : Markable(Opt(w, k))})

\* _on_key, a printable character: append it to the filter buffer and refilter
OnChar(w, c) ==
    Refilter([w EXCEPT !.text = Append(w.text, c), !.text_none = FALSE])

\* _on_key, key == "backspace" and self.text
OnBackspace(w) ==
    IF Len(w.text) = 0 THEN w
    ELSE Refilter([w EXCEPT !.text = SubSeq(w.text, 1, Len(w.text) - 1)])

\* _on_key, key == "esc"
OnEsc(w) ==
    IF ~w.text_none
    THEN LET parts == Split(w.text)
             filters == SubSeq(parts, 1, Len(parts) - 1)
         IN  Refilter([w EXCEPT !.text = Join(filters),
                                !.text_none = (Len(filters) = 0),
                                !.filter_mode_idx = IF Len(filters) = 0 THEN 0 ELSE @])
    ELSE FlipVisible(w, {k \in 1..Len(w.options) : Opt(w, k).selected})

\* _on_ctrlSlash
OnCtrlSlash(w) ==
    IF Len(w.text) = 0 THEN w
    ELSE Refilter([w EXCEPT !.filter_mode_idx = (@ + 1) % Len(FILTER_MODES)])

\* Termenu._on_space
OnSpace(w) ==
    IF ~w.multiselect THEN w
    ELSE OnDown(FlipVisible(w, {w.scroll + w.cursor + 1}))

\* _on_insert sending every active option to _on_space, markable or not
OnInsertAnyOption(w) ==
    IF ~ActiveValid(w) THEN [w EXCEPT !.raised = "IndexError"]
    ELSE OnSpace(w)

\* TermenuAdapter._on_insert
OnInsert(w) ==
    IF ~ActiveValid(w) THEN [w EXCEPT !.raised = "IndexError"]
    ELSE IF Markable(GetActiveOption(w)) THEN OnSpace(w)
    ELSE OnDown(w)

\* the rows _print_menu draws: enumerate(self._get_window())
Rows(w) == 0 .. (Min(w.scroll + w.height, Len(w.options)) - w.scroll - 1)

\* TermenuAdapter._decorate_flags(index) on top of Termenu._decorate_flags;
\* an option's markable_attr is TRUE also when it has no such attribute, and
\* then attrs.get("markable", self.multiselect) is self.multiselect
DecorateFlags(w, index) ==
    LET o == Opt(w, w.scroll + index + 1) IN
    [active |-> w.cursor = index,
     selected |-> o.selected,
     moreAbove |-> w.scroll > 0 /\ index = 0,
     moreBelow |-> w.scroll + w.height < Len(w.options) /\ index = w.height - 1,
     markable |-> o.markable_attr /\ w.multiselect]

\* any(option.selected for option in self.options)
AnySelected(w) == \E k \in 1..Len(w.options) : Opt(w, k).selected

\* _on_key lets "enter" through unless is_empty; TermenuAdapter._on_enter
\* then answers True (stop the loop) or False
EnterStops(w) ==
    /\ ~w.is_empty
    /\ \/ AnySelected(w)
       \/ ActiveValid(w) /\ GetActiveOption(w).selectable

\* "enter" as far as it changes the window: _on_enter reads the active option
\* when nothing is selected
OnEnter(w) ==
    IF ~w.is_empty /\ ~AnySelected(w) /\ ~ActiveValid(w)
    THEN [w EXCEPT !.raised = "IndexError"]
    ELSE w

\* an esc that stops the loop whenever there is no filter text, selections or not
EscStopsWithSelection(w) == w.text_none

\* _on_key, key == "esc" without filter text: bubble_up = not found_selected,
\* and Termenu._on_esc stops the loop
EscStops(w) == w.text_none /\ ~AnySelected(w)

MoveKeys == {"down", "up", "pageDown", "pageUp", "end"}
EditKeys == {"backspace", "esc", "ctrlSlash"}
MarkKeys == {"insert", "*"}

\* TermenuAdapter._on_key followed by Termenu._on_key's dispatch to _on_<key>
OnKey(w, key) ==
    IF key = "*" /\ w.multiselect THEN OnStar(w)
    ELSE IF key \in KeyChars \/ key = "*" THEN OnChar(w, key)
    ELSE IF key = "backspace" THEN OnBackspace(w)
    ELSE IF key = "esc" THEN OnEsc(w)
    ELSE IF key = "end" THEN OnEnd(w)
    ELSE IF key = "down" THEN OnDown(w)
    ELSE IF key = "up" THEN OnUp(w)
    ELSE IF key = "pageDown" THEN OnPageDown(w)
    ELSE IF key = "pageUp" THEN OnPageUp(w)
    ELSE IF key = "insert" THEN OnInsert(w)
    ELSE IF key = "ctrlSlash" THEN OnCtrlSlash(w)
    ELSE IF key = "enter" THEN OnEnter(w)
    ELSE w

(***************************************************************************)
(* Item sources                                                            *)
(***************************************************************************)
\* the options an application's item source draws from: a showAlways entry
\* that cannot be selected (a header), then two ordinary entries
Templates ==
    << Item(<<"B">>, 1, TRUE, TRUE, FALSE),
       Item(<<"a">>, 2, FALSE, TRUE, TRUE),
       Item(<<"a", "B">>, 3, FALSE, TRUE, TRUE) >>

\* the templates picked by the index set S, in their original order
Pick(S) ==
    LET idx == SelectSeq([i \in 1..Len(Templates) |-> i], LAMBDA i : i \in S)
    IN  [k \in 1..Len(idx) |-> Templates[idx[k]]]

\* the option lists an item source yields from one refresh to the next: all
\* the templates, all but the showAlways one, all but an ordinary one
ItemLists == {Pick({1, 2, 3}), Pick({2, 3}), Pick({1, 2})}

\* n plain options "a" with results 1..n
PlainItems(n) == [i \in 1..n |-> Item(<<"a">>, i, FALSE, TRUE, TRUE)]

Results == {Templates[i].result : i \in 1..Len(Templates)}

(***************************************************************************)
(* The window's operations as actions                                      *)
(***************************************************************************)
\* the kind of operation a key press is, as recorded in lastOp: a cursor
\* move, a call of _refilter, a change of selection marks; a key that does
\* nothing leaves lastOp as it is
OpOf(w, key) ==
    IF key \in MoveKeys THEN "move"
    ELSE IF key \in KeyChars THEN "filter"
    ELSE IF key \in {"backspace", "ctrlSlash"}
         THEN (IF Len(w.text) > 0 THEN "filter" ELSE lastOp)
    ELSE IF key = "esc" THEN (IF ~w.text_none THEN "filter" ELSE "mark")
    ELSE "mark"

\* a key event reaches the window's _on_key during the key loop of show()
Key(key) ==
    /\ raised = ""
    /\ lastOp \notin {"new", "reset", "reseed"}
    /\ key \in KeyChars => Len(text) < MaxText
    /\ key = "*" => multiselect
    /\ \E w \in {OnKey(Win, key)} : Install(w, OpOf(Win, key))
    /\ UNCHANGED <<navVars, extVars>>

\* the frame calls menu.reset(...) with freshly derived options
Reset(items, h, ms, has_selection, selection) ==
    /\ raised = ""
    /\ lastOp # "new" => ms = multiselect
    /\ lastOp \notin {"reset", "reseed"}
    /\ \E w \in {ResetWindow(Win, items, h, ms, has_selection, selection)} :
           Install(w, IF has_selection THEN "reseed" ELSE "reset")
    /\ UNCHANGED <<navVars, extVars>>

\* the frame calls menu.show(default)
Show(default) ==
    /\ raised = ""
    /\ lastOp # "new"
    /\ \E w \in {ShowWindow(Win, default)} : Install(w, "show")
    /\ UNCHANGED <<navVars, extVars>>

(***************************************************************************)
(* The navigator: AppMenu frames and the signals between them              *)
(***************************************************************************)
\* _MenuSignal subclasses and the other exceptions that cross frames; levels,
\* refresh and value are the params of Back, Retry and Return
Signal(kind, levels, refresh, value) ==
    [kind |-> kind, levels |-> levels, refresh |-> refresh, value |-> value]

NoSig == Signal("", 0, "", NoResult)

\* self.timeout is None
NoTimeout == -1

\* TermenuAdapter.__init__: (time.time() + app.timeout) if app.timeout else None
Deadline(now, t) == IF t # 0 THEN now + t ELSE NoTimeout

\* the SIGWINCH handler of the process: 0 is the handler in place before any
\* menu is shown, a frame id is that frame's window's handle_termsize_change
NoHandler == [handler |-> 0, saved |-> 0]

\* TermenuAdapter.show: orig_handler = signal.signal(SIGWINCH, self.handle_termsize_change)
ShowInstalls(w, id) == [handler |-> id, saved |-> w.handler]

\* a show whose finally leaves the handler in place
ShowExitKeepsHandler(w) == [handler |-> w.handler, saved |-> 0]

\* TermenuAdapter.show, finally: signal.signal(SIGWINCH, orig_handler)
ShowExit(w) == [handler |-> w.saved, saved |-> 0]

\* AppMenu.retry / back / result / quit
RetrySignal(refresh) == Signal("Retry", 0, refresh, NoResult)
BackSignal(refresh, levels) == Signal("Back", levels, refresh, NoResult)
ReturnSignal(value) == Signal("Return", 0, "", value)
QuitSignal == Signal("Quit", 0, "", NoResult)
\* AppMenu.TimeoutSignal, raised by the loop for the window's TimeoutSignal
TimeoutSignal == Signal("Timeout", 0, "", NoResult)
\* Ctrl-C while application code runs
KeyboardInterrupt == Signal("KeyboardInterrupt", 0, "", NoResult)
\* any other exception raised by application code
Failure == Signal("Failure", 0, "", NoResult)

\* truth value of a `refresh` ("first", "second", a source name, "True", "False")
Truthy(refresh) == refresh # "False"

NoOrigin == [kind |-> "", phase |-> "", frame |-> 0, ids |-> <<>>,
             levels |-> 0, refresh |-> "", value |-> NoResult]

NoEnded == [id |-> 0, by |-> "", return_value |-> NoResult,
            entry_menus |-> <<>>, entry_titles |-> <<>>,
            exit_menus |-> <<>>, exit_titles |-> <<>>]

\* no frame exists: the class lists are empty
NavIdle ==
    /\ all_menus = <<>>
    /\ all_titles = <<>>
    /\ frames = <<>>
    /\ sig = NoSig
    /\ escaped = ""
    /\ origin = NoOrigin
    /\ ended = NoEnded
    /\ winch = NoHandler

Last(q) == q[Len(q)]
Front(q) == SubSeq(q, 1, Len(q) - 1)

Top == Last(frames)

FrameIds == [i \in 1..Len(frames) |-> frames[i].id]

\* history: the signal s was raised by the application code of frame id,
\* while the frames ids were running
RaisedIn(id, ids, s, phase) ==
    [kind |-> s.kind, phase |-> phase, frame |-> id, ids |-> ids,
     levels |-> s.levels, refresh |-> s.refresh, value |-> s.value]

\* history: the signal s was raised by the application code of the top frame
Raised(s, phase) == RaisedIn(Top.id, FrameIds, s, phase)

\* history: the invocation of frame f ends, `by` a signal kind or "" (normally),
\* leaving the class lists as menus and titles
Ends(f, by, menus, titles) ==
    [id |-> f.id, by |-> by, return_value |-> f.return_value,
     entry_menus |-> f.entry_menus, entry_titles |-> f.entry_titles,
     exit_menus |-> menus, exit_titles |-> titles]

\* what initialize() can end with: nothing, an exception of the application,
\* or Ctrl-C
InitializeRaises == {Failure, KeyboardInterrupt}

\* AppMenu.__init__ up to the `while True` of _menu_loop: the frame is pushed
\* on _all_menus, then initialize() runs outside the try block, then the
\* frame's window is made, with its deadline.  A frame is
\* identified by the position it is pushed at.  An exception that leaves the
\* outermost frame ends the session.
EnterFrame(init) ==
    /\ sig = NoSig
    /\ escaped = ""
    /\ Len(frames) < MaxDepth
    /\ Len(all_menus) < MaxStack
    /\ IF frames = <<>> THEN TRUE ELSE Top.pc = "action"
    /\ LET parent == IF all_menus = <<>> THEN 0 ELSE Last(all_menus)
           f == [id |-> Len(all_menus) + 1, parent |-> parent, pc |-> "loop",
                 refresh |-> "first", selected |-> "unset",
                 timeout |-> Deadline(clock, app_timeout),
                 return_value |-> NoResult,
                 entry_menus |-> all_menus, entry_titles |-> all_titles]
       IN  /\ all_menus' = Append(all_menus, f.id)
           /\ IF init = "ok"
              THEN /\ frames' = Append(frames, f)
                   /\ origin' = NoOrigin
                   /\ ended' = NoEnded
                   /\ UNCHANGED <<sig, escaped>>
              ELSE \E s \in InitializeRaises :
                   /\ s.kind = init
                   /\ frames' = frames
                   /\ origin' = RaisedIn(f.id, Append(FrameIds, f.id), s, "initialize")
                   /\ ended' = Ends(f, s.kind, all_menus', all_titles)
                   /\ IF frames = <<>>
                      THEN escaped' = s.kind /\ sig' = NoSig
                      ELSE escaped' = escaped /\ sig' = s
    /\ UNCHANGED <<all_titles, winch, winVars, extVars>>

\* what the refresh block of _menu_loop can end with: options derived, an
\* empty item list, or a signal raised by update_data, banner or the items
RefreshRaises ==
    {RetrySignal("app"), BackSignal("True", 1), ReturnSignal(5), QuitSignal, Failure}

\* the top of `while True` up to the key loop of menu.show: re-derive the
\* options if self.refresh is truthy, push the title, display the menu with
\* the window's resize handler installed
LoopTop(outcome) ==
    /\ sig = NoSig
    /\ frames # <<>>
    /\ Top.pc = "loop"
    /\ LET n == Len(frames) IN
       IF Truthy(Top.refresh) /\ outcome # "ok"
       THEN /\ sig' = IF outcome = "empty" THEN ReturnSignal(NoResult)
                      ELSE CHOOSE s \in RefreshRaises : s.kind = outcome
            /\ origin' = Raised(sig', "refresh")
            /\ UNCHANGED <<frames, all_titles, winch>>
       ELSE /\ outcome = "ok"
            /\ frames' = [frames EXCEPT ![n].pc = "show",
                             ![n].refresh = IF Truthy(@) THEN @ ELSE "second"]
            /\ all_titles' = Append(all_titles, Top.id)
            /\ winch' = ShowInstalls(winch, Top.id)
            /\ origin' = NoOrigin
            /\ UNCHANGED sig
    /\ ended' = NoEnded
    /\ UNCHANGED <<all_menus, escaped, winVars, extVars>>

\* `continue`: the ExitStack pops the title and the loop starts over;
\* `selected` is assigned again before it is read, so it counts as unset
ResumeFrom(fs, refresh) ==
    /\ frames' = [fs EXCEPT ![Len(fs)].pc = "loop",
                            ![Len(fs)].refresh = refresh,
                            ![Len(fs)].selected = "unset"]
    /\ all_titles' = Front(all_titles)
    /\ sig' = NoSig
    /\ ended' = NoEnded
    /\ UNCHANGED <<all_menus, escaped>>

Resume(refresh) == ResumeFrom(frames, refresh)

\* _menu_loop is left and __init__'s finally pops _all_menus: frame f (the top
\* frame, with its final return_value) ends; s is the signal that goes on to
\* the invoker, NoSig when the frame ends normally
ExitFrame(f, s, titles) ==
    /\ frames' = Front(frames)
    /\ all_menus' = Front(all_menus)
    /\ all_titles' = titles
    /\ ended' = Ends(f, s.kind, all_menus', all_titles')
    /\ IF s # NoSig /\ Len(frames) = 1
       THEN escaped' = s.kind /\ sig' = NoSig
       ELSE escaped' = escaped /\ sig' = s

\* handlers around `while True` that treat TimeoutSignal as they treat Quit
OuterHandlersCatchTimeout(f, s, titles) ==
    IF s.kind \in {"Quit", "Back", "Timeout"}
    THEN ExitFrame(f, IF f.parent # 0 THEN s ELSE NoSig, titles)
    ELSE IF s.kind = "Return"
    THEN ExitFrame([f EXCEPT !.return_value = s.value], NoSig, titles)
    ELSE ExitFrame(f, s, titles)

\* handlers around `while True` whose `except ReturnSignal` ends the frame
\* without storing the value
OuterHandlersDropValue(f, s, titles) ==
    IF s.kind \in {"Quit", "Back"}
    THEN ExitFrame(f, IF f.parent # 0 THEN s ELSE NoSig, titles)
    ELSE IF s.kind = "Return"
    THEN ExitFrame(f, NoSig, titles)
    ELSE ExitFrame(f, s, titles)

\* the handlers around `while True`: except (QuitSignal, BackSignal),
\* except ReturnSignal; anything else passes through
OuterHandlers(f, s, titles) ==
    IF s.kind \in {"Quit", "Back"}
    THEN ExitFrame(f, IF f.parent # 0 THEN s ELSE NoSig, titles)
    ELSE IF s.kind = "Return"
    THEN ExitFrame([f EXCEPT !.return_value = s.value], NoSig, titles)
    ELSE ExitFrame(f, s, titles)

\* the handlers around self.on_selected(selected), re-raising a BackSignal
\* without counting the frame it leaves
ActionHandlersKeepLevels(f, s, titles) ==
    IF s.kind = "Retry" THEN Resume(s.refresh)
    ELSE IF s.kind = "KeyboardInterrupt" THEN Resume("False")
    ELSE IF s.kind = "Back"
    THEN IF s.levels # 0
         THEN OuterHandlers(f, s, titles)
         ELSE Resume(s.refresh)
    ELSE OuterHandlers(f, s, titles)

\* the handlers around self.on_selected(selected)
ActionHandlers(f, s, titles) ==
    IF s.kind = "Retry" THEN Resume(s.refresh)
    ELSE IF s.kind = "KeyboardInterrupt" THEN Resume("False")
    ELSE IF s.kind = "Back"
    THEN IF s.levels # 0
         THEN OuterHandlers(f, [s EXCEPT !.levels = @ - 1], titles)
         ELSE Resume(s.refresh)
    ELSE OuterHandlers(f, s, titles)

\* the signal in flight arrives in the top frame, at the place the frame's
\* control is: its refresh block, its menu.show call or its on_selected call
Propagate ==
    /\ sig # NoSig
    /\ frames # <<>>
    /\ IF Top.pc = "action" THEN ActionHandlers(Top, sig, Front(all_titles))
       ELSE IF Top.pc = "show" THEN OuterHandlers(Top, sig, Front(all_titles))
       ELSE OuterHandlers(Top, sig, all_titles)
    /\ UNCHANGED <<origin, winch, winVars, extVars>>

\* what menu.show hands to on_selected: None (esc), an empty list, a result
\* value that is falsy (0), a list of results
Selections == {"None", "[]", "0", "[3]"}

\* `not selected`
Falsy(selected) == selected \in {"None", "[]", "0"}

\* on_selected calling back() for every falsy selection
EmptySelectionAnyFalsy(selected) == Falsy(selected)

\* on_selected: `not selected and isinstance(selected, (NoneType, list))`
EmptySelection(selected) ==
    Falsy(selected) /\ selected \in {"None", "[]", "[3]"}

\* signals an on_<key> hook can raise while the menu is shown
ShowRaises ==
    {RetrySignal("app"), BackSignal("True", 1), ReturnSignal(5), QuitSignal, Failure}

\* the frames after a key other than heartbeat reached the shown window:
\* _on_key drops the window's deadline
Keyed == [frames EXCEPT ![Len(frames)].timeout = NoTimeout]

\* menu.show(...) ends: with a selection, or with one of the window's signals,
\* with KeyboardInterrupt, or with what an on_<key> hook raised; however it
\* ends, its finally puts the saved resize handler back
ShowEnds(outcome) ==
    /\ sig = NoSig
    /\ frames # <<>>
    /\ Top.pc = "show"
    /\ winch' = ShowExit(winch)
    /\ LET n == Len(frames) IN
       CASE outcome \in Selections ->
              \* selected = menu.show(...); self.on_selected(selected) is
              \* entered, and an empty selection calls self.back() at once
              /\ frames' = [Keyed EXCEPT ![n].pc = "action",
                                         ![n].selected = outcome]
              /\ IF EmptySelection(outcome)
                 THEN /\ sig' = BackSignal("True", 1)
                      /\ origin' = Raised(sig', "nothing")
                 ELSE UNCHANGED <<sig, origin>>
              /\ ended' = NoEnded
              /\ UNCHANGED <<all_titles, all_menus, escaped>>
         [] outcome = "KeyboardInterrupt" ->
              /\ sig' = QuitSignal
              /\ origin' = Raised(sig', "show")
              /\ ended' = NoEnded
              /\ UNCHANGED <<frames, all_titles, all_menus, escaped>>
         [] outcome = "Timeout" ->
              /\ sig' = TimeoutSignal
              /\ origin' = Raised(sig', "show")
              /\ ended' = NoEnded
              /\ UNCHANGED <<frames, all_titles, all_menus, escaped>>
         [] outcome \in {"heartbeat", "signal"} ->
              /\ Resume(outcome)
              /\ UNCHANGED origin
         [] outcome = "user" ->
              /\ ResumeFrom(Keyed, outcome)
              /\ UNCHANGED origin
         [] outcome = "Help" ->
              /\ ResumeFrom(Keyed, Top.refresh)
              /\ UNCHANGED origin
         [] OTHER ->
              /\ \E s \in ShowRaises : s.kind = outcome
              /\ sig' = CHOOSE s \in ShowRaises : s.kind = outcome
              /\ origin' = Raised(sig', "show")
              /\ ended' = NoEnded
              /\ frames' = Keyed
              /\ UNCHANGED <<all_titles, all_menus, escaped>>
    /\ UNCHANGED <<winVars, extVars>>

\* the selection's action returns ret: None refreshes the menu, anything else
\* is handed to self.result
ActionReturns(ret) ==
    /\ sig = NoSig
    /\ frames # <<>>
    /\ Top.pc = "action"
    /\ IF ret = NoResult
       THEN Resume("second") /\ UNCHANGED origin
       ELSE /\ sig' = ReturnSignal(ret)
            /\ origin' = Raised(sig', "action")
            /\ ended' = NoEnded
            /\ UNCHANGED <<frames, all_titles, all_menus, escaped>>
    /\ UNCHANGED <<winch, winVars, extVars>>

\* what a selection's action can raise
ActionSignals ==
    {RetrySignal(r) : r \in {"app", "False"}}
    \cup {BackSignal(r, k) : r \in {"True", "False"}, k \in 0..MaxDepth}
    \cup {ReturnSignal(v) : v \in {NoResult, 5}}
    \cup {QuitSignal, KeyboardInterrupt, Failure}

\* the selection's action raises s
ActionRaises(s) ==
    /\ sig = NoSig
    /\ frames # <<>>
    /\ Top.pc = "action"
    /\ sig' = s
    /\ origin' = Raised(s, "action")
    /\ ended' = NoEnded
    /\ UNCHANGED <<frames, all_titles, all_menus, escaped, winch, winVars, extVars>>

(***************************************************************************)
(* The window's deadline: TermenuAdapter.timeout, refresh, _on_heartbeat   *)
(***************************************************************************)
NoTimeoutHist ==
    [keyed |-> FALSE,        \* a key other than heartbeat reached the window
     late |-> 0,             \* heartbeats and resizes handled after the deadline
     late_heartbeats |-> 0,  \* heartbeats handled after the deadline
     raised |-> 0,           \* number of TimeoutSignal raised
     by |-> "",              \* what the window handled when it raised
     at |-> 0]               \* the time it raised

\* no frame with a deadline is modelled
TimeoutIdle ==
    /\ clock = 0
    /\ app_timeout = 0
    /\ tm_timeout = NoTimeout
    /\ tm_pc = "idle"
    /\ tm_refreshes = 0
    /\ tm_hist = NoTimeoutHist

\* the attributes RawTerminal saves have not been set
Unset == [lflag |-> {"unset"}, stdin_nonblock |-> FALSE, stdout_nonblock |-> FALSE]

NoCall == [op |-> "", before |-> 0, failed |-> "", captured |-> FALSE,
           restored |-> FALSE, term_before |-> Unset]

\* no closed() scope was left by the last call
NoScope == [opened |-> -1, term |-> Unset, scopes |-> 0, left |-> FALSE]

\* a terminal in canonical, echoing, blocking mode and no RawTerminal in use
TerminalIdle ==
    /\ term = [lflag |-> {"ICANON", "ECHO", "ISIG"},
               stdin_nonblock |-> FALSE, stdout_nonblock |-> FALSE]
    /\ rt_blocking = TRUE
    /\ rt_opened = 0
    /\ rt_saved = Unset
    /\ rt_scopes = 0
    /\ rt_prior = term
    /\ rt_last = NoCall
    /\ rt_released = <<>>
    /\ rt_left = NoScope

NoPass == [buffer |-> <<>>, emitted |-> <<>>, consumed |-> 0, accounts |-> <<>>]

\* the listener waits in select(): nothing was read since
NoPoll == [polled |-> FALSE, read |-> <<>>, accounted |-> <<>>]

\* no listener runs
ListenerIdle ==
    /\ kb_table = <<>>
    /\ kb_sequence = <<>>
    /\ kb_last = NoPass
    /\ kb_poll = NoPoll

\* no cursor key was pressed
NoRun == [key |-> "", count |-> 0, cursor |-> 0, scroll |-> 0]

MovesIdle == run = NoRun

\* _menu_loop before its first pass: self.refresh = "first", selection = None
LoopFirst == [refresh |-> "first", given |-> FALSE, selection |-> {}]

LoopIdle == loop = LoopFirst /\ loop_default = NoResult

\* no Colorized was made, no slice taken
NoColorized == [made |-> FALSE, tokens |-> <<>>, uncolored |-> <<>>]
NoSlice == [taken |-> FALSE, i |-> 0, j |-> 0, tokens |-> <<>>, uncolored |-> <<>>]

ColorsIdle == ct_text = <<>> /\ ct_obj = NoColorized /\ ct_slice = NoSlice

\* `default` arguments: None, a text, a list of texts
NoDefault == [kind |-> "none", texts |-> <<>>]

\* no basic Termenu was constructed
NoTermenu == [made |-> FALSE, options |-> <<>>, selected |-> {}, height |-> 0,
              multiselect |-> FALSE, cursor |-> 0, scroll |-> 0,
              height_arg |-> 0, default |-> NoDefault, raised |-> ""]

BasicIdle == bt = NoTermenu

MoreIdle == MovesIdle /\ LoopIdle /\ ColorsIdle /\ BasicIdle

ExtIdle == TimeoutIdle /\ TerminalIdle /\ ListenerIdle /\ MoreIdle

\* the start of _on_key: any key but heartbeat drops the deadline
KeyDeadline(timeout, key) == IF key # "heartbeat" THEN NoTimeout ELSE timeout

\* TermenuAdapter.refresh, raising at the deadline already
RefreshAtDeadline(timeout, now) ==
    IF timeout # NoTimeout /\ now >= timeout THEN "Timeout" ELSE "Refresh"

\* TermenuAdapter.refresh: the signal it raises
Refresh(timeout, now) ==
    IF timeout # NoTimeout /\ now > timeout THEN "Timeout" ELSE "Refresh"

\* keys other than heartbeat: F5 calls refresh('user'), the others stay in
\* the key loop
TimeoutKeys == {"F5", "down", "a"}

\* the window handles `what` ("heartbeat", "F5" or "resize") by calling
\* refresh: TimeoutSignal ends the frame, RefreshSignal restarts its loop
CallsRefresh(timeout, what) ==
    LET r == Refresh(timeout, clock)
        after == tm_timeout # NoTimeout /\ clock > tm_timeout
    IN  /\ tm_pc' = IF r = "Timeout" THEN "ended" ELSE "refresh"
        /\ tm_hist' = [tm_hist EXCEPT
              !.keyed = @ \/ what = "F5",
              !.late = IF after /\ what # "F5" THEN @ + 1 ELSE @,
              !.late_heartbeats = IF after /\ what = "heartbeat" THEN @ + 1 ELSE @,
              !.raised = IF r = "Timeout" THEN @ + 1 ELSE @,
              !.by = IF r = "Timeout" THEN what ELSE @,
              !.at = IF r = "Timeout" THEN clock ELSE @]

\* what the deadline's actions leave alone
tmOthers == <<winVars, navVars, rtVars, kbVars, moreVars>>

\* time passes
Tick ==
    /\ clock < MaxTime
    /\ clock' = clock + 1
    /\ UNCHANGED <<app_timeout, tm_timeout, tm_pc, tm_refreshes, tm_hist, tmOthers>>

\* select() times out: the listener yields "heartbeat", _on_key keeps the
\* deadline and _on_heartbeat calls refresh("heartbeat")
Heartbeat ==
    /\ tm_pc = "show"
    /\ tm_timeout' = KeyDeadline(tm_timeout, "heartbeat")
    /\ CallsRefresh(tm_timeout', "heartbeat")
    /\ UNCHANGED <<clock, app_timeout, tm_refreshes, tmOthers>>

\* a key other than heartbeat reaches _on_key
TimeoutKey(key) ==
    /\ tm_pc = "show"
    /\ tm_timeout' = KeyDeadline(tm_timeout, key)
    /\ IF key = "F5"
       THEN CallsRefresh(tm_timeout', "F5")
       ELSE /\ tm_hist' = [tm_hist EXCEPT !.keyed = TRUE]
            /\ UNCHANGED tm_pc
    /\ UNCHANGED <<clock, app_timeout, tm_refreshes, tmOthers>>

\* SIGWINCH while the menu is shown: handle_termsize_change calls
\* refresh("signal"); no key reaches _on_key
Resize ==
    /\ tm_pc = "show"
    /\ CallsRefresh(tm_timeout, "resize")
    /\ UNCHANGED <<clock, app_timeout, tm_timeout, tm_refreshes, tmOthers>>

\* _menu_loop after a RefreshSignal: options re-derived, reset, show again;
\* the deadline is only read (for the title), never moved
Redisplay ==
    /\ tm_pc = "refresh"
    /\ tm_refreshes < MaxRefreshes
    /\ tm_pc' = "show"
    /\ tm_refreshes' = tm_refreshes + 1
    /\ UNCHANGED <<clock, app_timeout, tm_timeout, tm_hist, tmOthers>>

(***************************************************************************)
(* RawTerminal: open, close                                                *)
(***************************************************************************)
\* what the terminal's actions leave alone
rtOthers == <<winVars, navVars, tmVars, kbVars, moreVars>>

\* newattr[3] & ~ICANON & ~ECHO, and O_NONBLOCK on both descriptors unless
\* the RawTerminal is blocking
RawMode(t, blocking) ==
    [lflag |-> t.lflag \ {"ICANON", "ECHO"},
     stdin_nonblock |-> IF blocking THEN t.stdin_nonblock ELSE TRUE,
     stdout_nonblock |-> IF blocking THEN t.stdout_nonblock ELSE TRUE]

\* the system calls of open() that can raise
OpenFailures == {"tcgetattr", "tcsetattr", "fcntl"}

\* RawTerminal.open; `failed` names the system call that raises, "" for none.
\* The count is incremented first; the first open saves the attributes and
\* switches the terminal, a system call that raises ends the call where it is.
OpenCall(failed) ==
    LET inner == rt_opened + 1 > 1
        set == ~inner /\ failed \notin {"tcgetattr", "tcsetattr"}
        done == ~inner /\ failed = ""
    IN  /\ failed # "" => ~inner
        /\ rt_opened' = rt_opened + 1
        /\ rt_saved' = IF done THEN term
                       ELSE IF ~inner /\ failed # "tcgetattr"
                       THEN [rt_saved EXCEPT !.lflag = term.lflag]
                       ELSE rt_saved
        /\ term' = IF done THEN RawMode(term, rt_blocking)
                   ELSE IF set THEN [term EXCEPT !.lflag = RawMode(term, rt_blocking).lflag]
                   ELSE term
        /\ rt_last' = [op |-> "open", before |-> rt_opened, failed |-> failed,
                       captured |-> ~inner /\ failed # "tcgetattr",
                       restored |-> FALSE, term_before |-> term]

\* an open() of a caller: one that returns starts a scope of the caller
Open(failed) ==
    /\ OpenCall(failed)
    /\ rt_scopes' = IF failed = "" THEN rt_scopes + 1 ELSE rt_scopes

\* RawTerminal.close: the count is decremented; the last close restores the
\* saved attributes (an attribute never saved raises AttributeError)
CloseCall ==
    LET outer == rt_opened - 1 <= 0
        restores == outer /\ rt_saved.lflag # Unset.lflag
    IN  /\ rt_opened' = rt_opened - 1
        /\ term' = IF restores THEN rt_saved ELSE term
        /\ rt_last' = [op |-> "close", before |-> rt_opened,
                       failed |-> IF outer /\ ~restores THEN "AttributeError" ELSE "",
                       captured |-> FALSE, restored |-> restores, term_before |-> term]
        /\ UNCHANGED rt_saved

\* a close() of a caller ends a scope of the caller
Close ==
    /\ CloseCall
    /\ rt_scopes' = rt_scopes - 1

\* a caller opens the terminal (__enter__, or open()), nested at most
\* MaxOpened deep
TerminalOpen(failed) ==
    /\ rt_opened < MaxOpened
    /\ Open(failed)
    /\ UNCHANGED <<rt_blocking, rt_prior, rt_released, rt_left, rtOthers>>

\* a caller leaves the scope of an open that returned (__exit__, or close())
TerminalClose ==
    /\ rt_scopes > 0
    /\ Close
    /\ UNCHANGED <<rt_blocking, rt_prior, rt_released, rt_left, rtOthers>>

\* the caller's scopes open when the innermost closed() scope was entered
ScopeFloor == IF rt_released = <<>> THEN 0 ELSE rt_released[Len(rt_released)].scopes

\* `with terminal.closed():` is entered: close(), then the body runs.  A
\* close() that raises leaves closed() before its try: no scope is entered.
\* (The count, which every such call lowers, is followed down to -MaxReleased.)
ClosedEnter ==
    /\ Len(rt_released) < MaxReleased
    /\ rt_opened > -MaxReleased
    /\ CloseCall
    /\ rt_released' = IF rt_last'.failed = ""
                      THEN Append(rt_released, [opened |-> rt_opened, term |-> term,
                                                scopes |-> rt_scopes, left |-> FALSE])
                      ELSE rt_released
    /\ rt_left' = NoScope
    /\ UNCHANGED <<rt_blocking, rt_prior, rt_scopes, rtOthers>>

\* the body of the innermost closed() scope ends, every scope opened inside
\* it being closed: `finally: self.open()`
ClosedExit ==
    /\ rt_released # <<>>
    /\ rt_scopes = ScopeFloor
    /\ OpenCall("")
    /\ rt_left' = [rt_released[Len(rt_released)] EXCEPT !.left = TRUE]
    /\ rt_released' = SubSeq(rt_released, 1, Len(rt_released) - 1)
    /\ UNCHANGED <<rt_blocking, rt_prior, rt_scopes, rtOthers>>

\* open() by a caller, also inside the body of a closed() scope
ReleasedOpen ==
    /\ rt_opened < MaxOpened
    /\ Open("")
    /\ rt_left' = NoScope
    /\ UNCHANGED <<rt_blocking, rt_prior, rt_released, rtOthers>>

\* close() by a caller of a scope it opened, inside the body of a closed()
\* scope only of one opened in that body
ReleasedClose ==
    /\ rt_scopes > ScopeFloor
    /\ Close
    /\ rt_left' = NoScope
    /\ UNCHANGED <<rt_blocking, rt_prior, rt_released, rtOthers>>

(***************************************************************************)
(* keyboard_listener: the key table and the decoder                        *)
(***************************************************************************)
\* what the listener's actions leave alone
kbOthers == <<winVars, navVars, tmVars, rtVars, moreVars>>

\* the bytes a terminal sends: \x1b, '[', 'A', 'C', an ordinary character,
\* newline and ctrl-A
Bytes == {"\\x1b", "[", "A", "C", "a", "\\n", "\\x01"}

\* ANSI_SEQUENCES as the module's dict literal builds it, in its order
DefaultSequences ==
    <<[name |-> "up", seq |-> <<"\\x1b", "[", "A">>],
      [name |-> "right", seq |-> <<"\\x1b", "[", "C">>]>>

\* ANSI_SEQUENCES[name] = sequence: a known name keeps its place in the
\* dict, a new name goes to the end
SetSequence(table, name, seq) ==
    IF \E i \in 1..Len(table) : table[i].name = name
    THEN [i \in 1..Len(table) |->
             IF table[i].name = name THEN [name |-> name, seq |-> seq] ELSE table[i]]
    ELSE Append(table, [name |-> name, seq |-> seq])

RECURSIVE SetSequences(_, _)
\* the lines of ~/.termenu/ansi_mapping applied in order
SetSequences(table, lines) ==
    IF lines = <<>> THEN table
    ELSE SetSequences(SetSequence(table, Head(lines).name, Head(lines).seq), Tail(lines))

\* the table after the module is loaded: the defaults, the user's mapping,
\* then the ctrl_<letter> keys
LoadTable(mapping) ==
    SetSequence(SetSequences(DefaultSequences, mapping), "ctrl_a", <<"\\x01">>)

\* KEY_NAMES.update({...}): the keys decoded by a literal table
LiteralNames == [b \in {"\\x1b", "\\n"} |-> IF b = "\\x1b" THEN "esc" ELSE "enter"]

\* KEY_NAMES[seq]: the name added last for seq, a literal name winning
KeyName(table, seq) ==
    IF Len(seq) = 1 /\ seq[1] \in DOMAIN LiteralNames THEN LiteralNames[seq[1]]
    ELSE LET is == {i \in 1..Len(table) : table[i].seq = seq}
         IN  table[CHOOSE i \in is : \A j \in is : j <= i].name

\* KEY_NAMES.get(key, key) for one byte
ByteName(table, b) ==
    IF b \in DOMAIN LiteralNames \/ \E i \in 1..Len(table) : table[i].seq = <<b>>
    THEN KeyName(table, <<b>>)
    ELSE b

RECURSIVE Concat(_)
\* "".join(parts)
Concat(parts) == IF parts = <<>> THEN <<>> ELSE Head(parts) \o Concat(Tail(parts))

\* sequence[:len(seq)] == seq
StartsWith(buffer, seq) ==
    Len(seq) <= Len(buffer) /\ SubSeq(buffer, 1, Len(seq)) = seq

\* a pass that, finding no sequence, yields the first pending byte only and
\* still empties the buffer
DecodePassFirstByteOnly(table, buffer) ==
    LET hits == {i \in 1..Len(table) : StartsWith(buffer, table[i].seq)}
    IN  IF hits # {}
        THEN LET seq == table[CHOOSE i \in hits : \A j \in hits : i <= j].seq
             IN  [buffer |-> buffer, emitted |-> <<KeyName(table, seq)>>,
                  consumed |-> Len(seq), accounts |-> <<seq>>]
        ELSE [buffer |-> buffer,
              emitted |-> <<ByteName(table, buffer[1])>>,
              consumed |-> Len(buffer), accounts |-> <<<<buffer[1]>>>>]

\* one pass of `while sequence`: the first sequence of the table, in its
\* order, that the buffer starts with is emitted and consumed; when there is
\* none every pending byte is emitted by its own name and the buffer emptied.
\* accounts: per event, the bytes it stands for (the matched sequence, or the
\* one byte of the `for key in sequence` loop)
DecodePass(table, buffer) ==
    LET hits == {i \in 1..Len(table) : StartsWith(buffer, table[i].seq)}
    IN  IF hits # {}
        THEN LET seq == table[CHOOSE i \in hits : \A j \in hits : i <= j].seq
             IN  [buffer |-> buffer, emitted |-> <<KeyName(table, seq)>>,
                  consumed |-> Len(seq), accounts |-> <<seq>>]
        ELSE [buffer |-> buffer,
              emitted |-> [k \in 1..Len(buffer) |-> ByteName(table, buffer[k])],
              consumed |-> Len(buffer),
              accounts |-> [k \in 1..Len(buffer) |-> <<buffer[k]>>]]

\* the buffer is drained: the listener goes back to select() and waits
WaitForInput ==
    /\ kb_table # <<>>
    /\ kb_sequence = <<>>
    /\ kb_last # NoPass
    /\ kb_last' = NoPass
    /\ kb_poll' = NoPoll
    /\ UNCHANGED <<kb_table, kb_sequence, kbOthers>>

\* select() reports input and the listener reads all available bytes (none
\* when the first get() raises EOFError or EAGAIN)
ReadBatch(batch) ==
    /\ kb_table # <<>>
    /\ kb_sequence = <<>>
    /\ kb_last = NoPass
    /\ kb_poll = NoPoll
    /\ kb_sequence' = batch
    /\ kb_poll' = [polled |-> TRUE, read |-> batch, accounted |-> <<>>]
    /\ UNCHANGED <<kb_table, kb_last, kbOthers>>

\* select() times out (heartbeat is set): `yield "heartbeat"; continue`
ListenerHeartbeat ==
    /\ kb_table # <<>>
    /\ kb_sequence = <<>>
    /\ kb_last = NoPass
    /\ kb_poll = NoPoll
    /\ kb_last' = [NoPass EXCEPT !.emitted = <<"heartbeat">>]
    /\ kb_poll' = [NoPoll EXCEPT !.polled = TRUE]
    /\ UNCHANGED <<kb_table, kb_sequence, kbOthers>>

\* the bytes read are decoded (`while sequence` is left at once when none
\* were read): back to select()
ReadNothing ==
    /\ kb_table # <<>>
    /\ kb_sequence = <<>>
    /\ kb_last = NoPass
    /\ kb_poll # NoPoll
    /\ kb_poll' = NoPoll
    /\ UNCHANGED <<kb_table, kb_sequence, kb_last, kbOthers>>

\* one pass of `while sequence`, its events yielded to the consumer
Decode ==
    /\ kb_sequence # <<>>
    /\ kb_last' = DecodePass(kb_table, kb_sequence)
    /\ kb_sequence' = SubSeq(kb_sequence, kb_last'.consumed + 1, Len(kb_sequence))
    /\ kb_poll' = [kb_poll EXCEPT !.accounted = @ \o Concat(kb_last'.accounts)]
    /\ UNCHANGED <<kb_table, kbOthers>>

(***************************************************************************)
(* Colorized: markup strings, their tokens and slices (colors.py)          *)
(***************************************************************************)
clOthers == <<winVars, navVars, tmVars, rtVars, kbVars, mvVars, lpVars, btVars>>

\* [A-Z_]: the characters of a color name
NameChars == {"R", "_"}

\* s[a:b] for 0 <= a and 0 <= b
PySlice(s, a, b) == SubSeq(s, a + 1, Min(b, Len(s)))

\* s has the two characters `pair` at position p
HasAt(s, p, pair) == p + 1 <= Len(s) /\ s[p] = pair[1] /\ s[p + 1] = pair[2]

RECURSIVE NameEnd(_, _)
\* [A-Z_]+ from position p, greedy: the position after the run
NameEnd(s, p) == IF p <= Len(s) /\ s[p] \in NameChars THEN NameEnd(s, p + 1) ELSE p

\* the closing pair of the opening pair at position q, <<>> if there is none
Closer(s, q) ==
    IF HasAt(s, q, <<"<", "<">>) THEN <<">", ">">>
    ELSE IF HasAt(s, q, <<"@", "{">>) THEN <<"}", "@">>
    ELSE <<>>

\* _RE_COLOR tried at position p: a color name, an opening pair at once after
\* it, and (.*? with dot-all) the first closing pair of the same kind.  A
\* shorter name cannot match: the character after it is a name character.
NoMatch == [found |-> FALSE, name |-> <<>>, text |-> <<>>, end |-> 0]

MatchAt(s, p) ==
    LET q == NameEnd(s, p)
        closer == Closer(s, q)
        ends == {c \in (q + 2)..(Len(s) - 1) : HasAt(s, c, closer)}
    IN  IF q > p /\ closer # <<>> /\ ends # {}
        THEN LET c == CHOOSE x \in ends : \A y \in ends : x <= y
             IN  [found |-> TRUE, name |-> SubSeq(s, p, q - 1),
                  text |-> SubSeq(s, q + 2, c - 1), end |-> c + 1]
        ELSE NoMatch

RECURSIVE ColorSplit(_, _, _)
\* _RE_COLOR.split(text) from position p on, the piece of plain text in
\* progress having started at `from`: plain pieces alternate with matches
ColorSplit(s, p, from) ==
    IF p > Len(s)
    THEN << [colored |-> FALSE, name |-> <<>>, text |-> SubSeq(s, from, Len(s))] >>
    ELSE LET m == MatchAt(s, p) IN
         IF m.found
         THEN << [colored |-> FALSE, name |-> <<>>, text |-> SubSeq(s, from, p - 1)],
                 [colored |-> TRUE, name |-> m.name, text |-> m.text] >>
              \o ColorSplit(s, m.end + 1, m.end + 1)
         ELSE ColorSplit(s, p + 1, from)

RECURSIVE Strip(_)
\* match.group(1).strip("_")
Strip(name) ==
    IF name = <<>> THEN name
    ELSE IF Head(name) = "_" THEN Strip(Tail(name))
    ELSE IF name[Len(name)] = "_" THEN Strip(SubSeq(name, 1, Len(name) - 1))
    ELSE name

RECURSIVE LinesFrom(_, _, _)
\* text.split("\n") from position i on, cur being the line collected so far
LinesFrom(s, i, cur) ==
    IF i > Len(s) THEN <<cur>>
    ELSE IF s[i] = "\n" THEN <<cur>> \o LinesFrom(s, i + 1, <<>>)
    ELSE LinesFrom(s, i + 1, Append(cur, s[i]))

\* text.splitlines(): no line for an empty text, none after a final newline
SplitLines(s) ==
    LET parts == LinesFrom(s, 1, <<>>) IN
    IF parts[Len(parts)] = <<>> THEN SubSeq(parts, 1, Len(parts) - 1) ELSE parts

\* Token(text) and ColoredToken(text, colorizer_name); name <<>> for a Token
Token(txt) == [text |-> txt, name |-> <<>>]
ColoredToken(txt, name) == [text |-> txt, name |-> name]

RECURSIVE LineTokens(_, _)
\* for l in text.splitlines(): a ColoredToken, then Token("\n")
LineTokens(lines, name) ==
    IF lines = <<>> THEN <<>>
    ELSE <<ColoredToken(Head(lines), name), Token(<<"\n">>)>>
         \o LineTokens(Tail(lines), name)

\* the body of the loop of Colorized.__new__ for one piece of the split
AddPiece(tokens, piece) ==
    IF piece.colored
    THEN LET added == tokens \o LineTokens(SplitLines(piece.text), Strip(piece.name))
         IN  IF piece.text # <<>> /\ piece.text[Len(piece.text)] = "\n"
             THEN added
             ELSE SubSeq(added, 1, Len(added) - 1)
    ELSE Append(tokens, Token(piece.text))

RECURSIVE AddPieces(_, _)
AddPieces(tokens, pieces) ==
    IF pieces = <<>> THEN tokens
    ELSE AddPieces(AddPiece(tokens, Head(pieces)), Tail(pieces))

\* self.tokens of Colorized(text)
Tokens(s) == AddPieces(<<>>, ColorSplit(s, 1, 1))

\* "".join(str.__str__(token) for token in tokens)
Plain(tokens) == Concat([k \in 1..Len(tokens) |-> tokens[k].text])

\* Token.raw / ColoredToken.raw
TokenRaw(t) ==
    IF t.name = <<>> THEN t.text
    ELSE IF Contains(t.text, <<">", ">">>) \/ Contains(t.text, <<"<", "<">>)
    THEN t.name \o <<"@", "{">> \o t.text \o <<"}", "@">>
    ELSE t.name \o <<"<", "<">> \o t.text \o <<">", ">">>

\* "".join(t.raw() for t in tokens if t)
RawOf(tokens) ==
    Concat([k \in 1..Len(tokens) |->
               IF tokens[k].text = <<>> THEN <<>> ELSE TokenRaw(tokens[k])])

\* Colorized(text)
Colorized(s) ==
    LET tokens == Tokens(s) IN
    [made |-> TRUE, tokens |-> tokens, uncolored |-> Plain(tokens)]

RECURSIVE SliceTokens(_, _, _, _, _)
\* the token loop of __getitem__ from token k on
SliceTokens(tokens, k, cur, start, stop) ==
    IF k > Len(tokens) THEN <<>>
    ELSE LET t == tokens[k]
             cut == [t EXCEPT !.text = PySlice(t.text, Max(0, start - cur), stop - cur)]
         IN  IF cur + Len(t.text) > stop THEN <<cut>>
             ELSE <<cut>> \o SliceTokens(tokens, k + 1, cur + Len(t.text), start, stop)

\* Colorized.__getitem__(slice(i, j)) for 0 <= i: start = idx.start or 0,
\* stop = idx.stop or len(self)
GetItem(obj, i, j) ==
    LET stop == IF j = 0 THEN Len(obj.uncolored) ELSE j IN
    Colorized(RawOf(SliceTokens(obj.tokens, 1, 0, i, stop)))

\* text = Colorized(s)
ColorizedNew(s) ==
    /\ ~ct_obj.made
    /\ ct_text' = s
    /\ ct_obj' = Colorized(s)
    /\ UNCHANGED <<ct_slice, clOthers>>

\* text[i:j]
ColorizedSlice(i, j) ==
    /\ ct_obj.made
    /\ ~ct_slice.taken
    /\ \E r \in {GetItem(ct_obj, i, j)} :
          ct_slice' = [taken |-> TRUE, i |-> i, j |-> j,
                       tokens |-> r.tokens, uncolored |-> r.uncolored]
    /\ UNCHANGED <<ct_text, ct_obj, clOthers>>

\* the slice is dropped
ColorizedSliceDropped ==
    /\ ct_slice.taken
    /\ ct_slice' = NoSlice
    /\ UNCHANGED <<ct_text, ct_obj, clOthers>>

(***************************************************************************)
(* SpecNav: a session of nested AppMenu frames                             *)
(***************************************************************************)
InitNav == IsWindow(NewWindow, "new") /\ NavIdle /\ ExtIdle

NavEnter == \E init \in {"ok"} \cup {s.kind : s \in InitializeRaises} : EnterFrame(init)

NavLoopTop ==
    \E outcome \in {"ok", "empty"} \cup {s.kind : s \in RefreshRaises} : LoopTop(outcome)

NavShowEnds ==
    \E outcome \in Selections \cup {"KeyboardInterrupt", "Timeout",
                    "heartbeat", "user", "signal", "Help"}
                   \cup {s.kind : s \in ShowRaises} : ShowEnds(outcome)

NavActionReturns == \E ret \in {NoResult, 5} : ActionReturns(ret)

NavActionRaises == \E s \in ActionSignals : ActionRaises(s)

NextNav ==
    NavEnter \/ NavLoopTop \/ NavShowEnds \/ NavActionReturns \/ NavActionRaises
    \/ Propagate

SpecNav == InitNav /\ [][NextNav]_vars

(***************************************************************************)
(* SpecMoves: cursor moves over a list of n options                        *)
(***************************************************************************)
\* a window over n options with cursor and scroll at 0.  The height is the
\* configured one: at most n after Termenu.__init__, above n once a filter
\* has narrowed the visible list (the moves clip it themselves).
InitMoves ==
    /\ \E n \in 1..MaxOptions, h \in 1..MaxMoveHeight :
        \E w \in {[TermenuInit(NewWindow, PlainItems(n), h, FALSE)
                      EXCEPT !.height = h, !.is_empty = FALSE]} : IsWindow(w, "show")
    /\ NavIdle
    /\ ExtIdle

\* history: key is pressed once more in a row, or starts a new run from the
\* window position it is pressed at
Pressed(key) ==
    IF run.key = key THEN [run EXCEPT !.count = @ + 1]
    ELSE [key |-> key, count |-> 1, cursor |-> cursor, scroll |-> scroll]

\* one cursor key reaches _on_key; lastOp records which
MoveKey ==
    \E key \in MoveKeys :
        /\ raised = ""
        /\ run.key = key => run.count < MaxPresses
        /\ \E w \in {OnKey(Win, key)} : Install(w, key)
        /\ run' = Pressed(key)
        /\ UNCHANGED <<navVars, tmVars, rtVars, kbVars, lpVars, clVars, btVars>>

NextMoves == MoveKey

SpecMoves == InitMoves /\ [][NextMoves]_vars

(***************************************************************************)
(* SpecWin: one TermenuAdapter driven through resets, shows and keys       *)
(***************************************************************************)
InitWin == IsWindow(NewWindow, "new") /\ NavIdle /\ ExtIdle

WinKeys == MoveKeys \cup EditKeys \cup MarkKeys \cup KeyChars

WinKey == \E key \in WinKeys : Key(key)

WinReset ==
    \E items \in ItemLists, h \in 1..MaxHeight, ms \in BOOLEAN :
        Reset(items, h, ms, FALSE, {})

\* a frame's configured default: none, or the result of one option
Defaults == {NoResult, 3}

WinShow == \E default \in Defaults : Show(default)

NextWin == WinKey \/ WinReset \/ WinShow

SpecWin == InitWin /\ [][NextWin]_vars

(***************************************************************************)
(* SpecMarks: one shown window, its selection marks and the enter key      *)
(***************************************************************************)
\* two ordinary options, one whose `markable` attribute is False, and a
\* showAlways header that cannot be selected
MarkTemplates ==
    << Item(<<"a">>, 1, FALSE, TRUE, TRUE),
       Item(<<"B">>, 2, FALSE, FALSE, TRUE),
       Item(<<"a", "B">>, 3, FALSE, TRUE, TRUE),
       Item(<<"B">>, 4, TRUE, TRUE, FALSE) >>

MarkItemLists ==
    {MarkTemplates, SubSeq(MarkTemplates, 1, 3), SubSeq(MarkTemplates, 2, 4),
     SubSeq(MarkTemplates, 1, 1)}

\* the items the window's option objects were made from
ItemsOf(w) ==
    [i \in 1..Len(w.allOptions) |->
        Item(w.allOptions[i].text, w.allOptions[i].result,
             w.allOptions[i].showAlways, w.allOptions[i].markable_attr,
             w.allOptions[i].selectable)]

\* the frame's first pass: menu.reset(options, height, multiselect), menu.show()
InitMarks ==
    /\ \E items \in MarkItemLists, h \in 1..MaxHeight, ms \in BOOLEAN :
           IsWindow(ShowWindow(ResetWindow(NewWindow, items, h, ms, FALSE, {}),
                               NoResult), "show")
    /\ NavIdle
    /\ ExtIdle

MarksKeys == {"insert", "*", "enter", "esc", "backspace", "down", "up", "a", "B"}

\* what a key press leaves in lastOp: "selected" when enter ended the key
\* loop, "aborted" when esc ended it, the key itself while the loop goes on
KeyOutcome(w, key) ==
    IF key = "enter" /\ EnterStops(w) THEN "selected"
    ELSE IF key = "esc" /\ EscStops(w) THEN "aborted"
    ELSE key

\* one iteration of the key loop of Termenu.show: self._on_key(key)
MarksKey(key) ==
    /\ raised = ""
    /\ lastOp \notin {"selected", "aborted"}
    /\ (key \in KeyChars \/ (key = "*" /\ ~multiselect)) => Len(text) < MaxText
    /\ \E w \in {OnKey(Win, key)} : Install(w, KeyOutcome(Win, key))
    /\ UNCHANGED <<navVars, extVars>>

MarksKeyPressed == \E key \in MarksKeys : MarksKey(key)

\* one more pass of `while True` with self.refresh = refresh: if it is
\* truthy the window is reset with the same items and the loop's `selection`,
\* then the menu is shown
LoopPassWith(w, refresh, given, selection, default) ==
    IF Truthy(refresh)
    THEN LET r == ResetWindow(w, ItemsOf(w), w.height, w.multiselect,
                              given, selection)
         IN  IF r.raised # "" THEN r ELSE ShowWindow(r, default)
    ELSE ShowWindow(w, default)

\* a pass after menu.show returned: `default = None` was run
LoopPass(w, refresh, given, selection) ==
    LoopPassWith(w, refresh, given, selection, NoResult)

\* show() returned, the action returned None (self.refresh = "second") and
\* the frame comes round its loop
MarksShownAgain ==
    /\ raised = ""
    /\ lastOp \in {"selected", "aborted"}
    /\ loop' = [loop EXCEPT !.refresh = "second"]
    /\ loop_default' = NoResult
    /\ \E w \in {LoopPass(Win, "second", loop.given, loop.selection)} :
           Install(w, "show")
    /\ UNCHANGED <<navVars, tmVars, rtVars, kbVars, mvVars, clVars, btVars>>

\* the selections an action hands to retry()
RetrySelections == {{}, {1}, {2, 3}}

\* show() returned a selection and its action raised
\* Retry{refresh, selection}: `self.refresh = e.refresh`,
\* `selection = e.selection`, `continue`, and the next pass of the loop
MarksRetry(refresh, given, selection) ==
    /\ raised = ""
    /\ lastOp = "selected"
    /\ ~given => selection = {}
    /\ loop' = [refresh |-> refresh, given |-> given, selection |-> selection]
    /\ loop_default' = NoResult
    /\ \E w \in {LoopPass(Win, refresh, given, selection)} :
           Install(w, "retry")
    /\ UNCHANGED <<navVars, tmVars, rtVars, kbVars, mvVars, clVars, btVars>>

MarksRetried ==
    \E refresh \in {"app", "False"}, given \in BOOLEAN,
       selection \in RetrySelections : MarksRetry(refresh, given, selection)

NextMarks == MarksKeyPressed \/ MarksShownAgain

SpecMarks == InitMarks /\ [][NextMarks]_vars

(***************************************************************************)
(* SpecRetry: one shown window whose actions raise Retry                   *)
(***************************************************************************)
RetryKeys == {"insert", "enter", "down", "a", "backspace"}

RetryKeyPressed == \E key \in RetryKeys : MarksKey(key)

NextRetry == RetryKeyPressed \/ MarksShownAgain \/ MarksRetried

SpecRetry == InitMarks /\ [][NextRetry]_vars

(***************************************************************************)
(* SpecEsc: one shown window, filter terms typed and esc pressed           *)
(***************************************************************************)
EscKeys == {"esc", "insert", "*", "down", "backspace", "a", "B", FILTER_SEPARATOR}

EscKeyPressed == \E key \in EscKeys : MarksKey(key)

NextEsc == EscKeyPressed

SpecEsc == InitMarks /\ [][NextEsc]_vars

(***************************************************************************)
(* SpecLoop: one frame's loop: a default, refresh signals, Retry           *)
(***************************************************************************)
\* the configured default: none, or the result value of an option
LoopDefaults == {NoResult, 2, 3}

LoopItemLists == {SubSeq(MarkTemplates, 1, 3), MarkTemplates}

\* the frame's first pass: menu.reset(options, ...), menu.show(default)
InitLoop ==
    /\ \E items \in LoopItemLists, ms \in BOOLEAN, default \in LoopDefaults :
           /\ IsWindow(ShowWindow(ResetWindow(NewWindow, items, MaxHeight, ms,
                                              FALSE, {}), default), "show")
           /\ loop = LoopFirst
           /\ loop_default = default
    /\ NavIdle
    /\ TimeoutIdle
    /\ TerminalIdle
    /\ ListenerIdle
    /\ MovesIdle
    /\ ColorsIdle
    /\ BasicIdle

LoopKeys == {"insert", "enter", "esc", "down", "up"}

LoopKeyPressed == \E key \in LoopKeys : MarksKey(key)

\* the sources of a RefreshSignal: _on_heartbeat, _on_F5, handle_termsize_change
RefreshSources == {"heartbeat", "user", "signal"}

\* menu.show is left by RefreshSignal(source) while it waits for a key:
\* `self.refresh = e.source`, `continue` (the line `default = None` is not
\* reached), and the next pass of the loop
LoopRefreshed(source) ==
    /\ raised = ""
    /\ lastOp \notin {"selected", "aborted"}
    /\ loop' = [loop EXCEPT !.refresh = source]
    /\ \E w \in {LoopPassWith(Win, source, loop.given, loop.selection, loop_default)} :
           Install(w, "refresh")
    /\ UNCHANGED <<loop_default, navVars, tmVars, rtVars, kbVars, mvVars, clVars, btVars>>

LoopRefresh == \E source \in RefreshSources : LoopRefreshed(source)

NextLoop == LoopKeyPressed \/ LoopRefresh \/ MarksShownAgain \/ MarksRetried

SpecLoop == InitLoop /\ [][NextLoop]_vars

(***************************************************************************)
(* SpecColors: Colorized strings made from markup and sliced               *)
(***************************************************************************)
\* pieces of markup: plain characters, a lone name, a newline, a colored
\* word, a colored region of two lines, a region in @{ }@, stray brackets
MarkupPieces ==
    { <<"a">>, <<"R">>, <<"\n">>, <<">">>,
      <<"R", "<", "<", "a", "b", ">", ">">>,
      <<"R", "<", "<", "a", "\n", "b", ">", ">">>,
      <<"R", "@", "{", "a", "}", "@">>,
      <<"R", "<", "<">> }

\* the markup strings: up to MaxPieces pieces in a row
Markups == UNION {{Concat(ps) : ps \in [1..n -> MarkupPieces]} : n \in 0..MaxPieces}

InitColors ==
    /\ IsWindow(NewWindow, "new")
    /\ NavIdle
    /\ ExtIdle

ColorsMade == \E s \in Markups : ColorizedNew(s)

ColorsSliced ==
    /\ ct_obj.made
    /\ ~ct_slice.taken
    /\ \E j \in 0..Len(ct_obj.uncolored) : \E i \in 0..j : ColorizedSlice(i, j)

NextColors == ColorsMade \/ ColorsSliced \/ ColorizedSliceDropped

SpecColors == InitColors /\ [][NextColors]_vars

(***************************************************************************)
(* The basic Termenu of termenu2: __init__ and _set_default                *)
(***************************************************************************)
btOthers == <<winVars, navVars, tmVars, rtVars, kbVars, mvVars, lpVars, clVars>>

\* _get_index: the 0-based index of the first option whose text is s, -1 for
\* None
BasicGetIndex(texts, s) ==
    LET matches == {k \in 1..Len(texts) : <<texts[k]>> = s}
    IN  IF matches = {} THEN -1
        ELSE (CHOOSE k \in matches : \A j \in matches : k <= j) - 1

\* Termenu._set_default on the menu t.  A non-empty list marks the options
\* whose text it holds and goes on with its first text; the text is looked up
\* (a text is compared as <<text>>, so that None and [] match no option) and
\* the cursor and scroll are set by one of three branches.
BasicSetDefault(t, default) ==
    LET many == default.kind = "list" /\ default.texts # <<>>
        n == Len(t.options)
    IN  IF many /\ ~t.multiselect THEN [t EXCEPT !.raised = "ValueError"]
        ELSE LET marked == IF many
                           THEN {k \in 1..n : t.options[k] \in Range(default.texts)}
                           ELSE {}
                 s == IF many THEN <<default.texts[1]>>
                      ELSE IF default.kind = "str" THEN default.texts
                      ELSE <<>>
                 index == BasicGetIndex(t.options, s)
                 m == [t EXCEPT !.selected = marked]
             IN  IF index = -1 THEN m
                 ELSE IF index < t.height
                 THEN [m EXCEPT !.cursor = index % t.height, !.scroll = 0]
                 ELSE IF index + t.height < n - 1
                 THEN [m EXCEPT !.cursor = 0, !.scroll = index]
                 ELSE [m EXCEPT !.cursor = (index % t.height) + 1,
                                !.scroll = n - t.height]

\* Termenu.__init__(options, default=default, height=h, multiselect=ms);
\* h = 0 stands for None (`height or 10`)
BasicInit(texts, default, h, ms) ==
    BasicSetDefault([NoTermenu EXCEPT !.made = TRUE,
                                      !.options = texts,
                                      !.height = Min(IF h = 0 THEN 10 ELSE h,
                                                     Len(texts)),
                                      !.multiselect = ms,
                                      !.height_arg = h,
                                      !.default = default],
                    default)

\* a basic Termenu is constructed
BasicNew(texts, default, h, ms) ==
    /\ ~bt.made
    /\ bt' = BasicInit(texts, default, h, ms)
    /\ UNCHANGED btOthers

(***************************************************************************)
(* SpecBasic: a basic Termenu constructed over n options                   *)
(***************************************************************************)
\* distinct option texts
BasicTexts == <<"a", "b", "c", "d", "e", "f">>

\* None, every text of the options, a text of no option, the empty list and
\* lists of one and two texts
BasicDefaults(texts) ==
    {NoDefault, [kind |-> "list", texts |-> <<>>], [kind |-> "str", texts |-> <<"z">>]}
    \cup {[kind |-> "str", texts |-> <<texts[k]>>] : k \in 1..Len(texts)}
    \cup {[kind |-> "list", texts |-> <<texts[k]>>] : k \in 1..Len(texts)}
    \cup {[kind |-> "list", texts |-> <<texts[Len(texts)], texts[1]>>]}

InitBasic ==
    /\ IsWindow(NewWindow, "new")
    /\ NavIdle
    /\ ExtIdle

BasicMade ==
    \E n \in 1..MaxOptions, h \in 0..MaxMoveHeight, ms \in BOOLEAN :
        \E default \in BasicDefaults(SubSeq(BasicTexts, 1, n)) :
            BasicNew(SubSeq(BasicTexts, 1, n), default, h, ms)

NextBasic == BasicMade

SpecBasic == InitBasic /\ [][NextBasic]_vars

(***************************************************************************)
(* SpecResize: nested frames with a timeout, resized while they wait       *)
(***************************************************************************)
\* every frame's class has the same timeout; time starts at 0
InitResize ==
    /\ IsWindow(NewWindow, "new")
    /\ NavIdle
    /\ clock = 0
    /\ app_timeout \in 0..MaxTimeout
    /\ tm_timeout = NoTimeout
    /\ tm_pc = "idle"
    /\ tm_refreshes = 0
    /\ tm_hist = NoTimeoutHist
    /\ TerminalIdle
    /\ ListenerIdle
    /\ MoreIdle

\* a root menu is started, or a selection's action starts a sub-menu
ResizeEnter == EnterFrame("ok")

\* the loop displays the menu, or ends the frame on an empty item list
ResizeLoopTop == \E outcome \in {"ok", "empty"} : LoopTop(outcome)

\* enter on an option, esc, F5
ResizeKeys == {"[3]", "None", "user"}

ResizeKey == \E outcome \in ResizeKeys : ShowEnds(outcome)

\* the shown window calls refresh(source): past its deadline menu.show ends
\* with TimeoutSignal, else with RefreshSignal(source)
ShowRefreshes(source) ==
    /\ frames # <<>>
    /\ Top.pc = "show"
    /\ ShowEnds(IF Refresh(Top.timeout, clock) = "Timeout" THEN "Timeout" ELSE source)

\* select() times out while the top frame waits: _on_heartbeat calls
\* refresh("heartbeat")
ResizeHeartbeat == ShowRefreshes("heartbeat")

\* SIGWINCH while a frame waits for a key: the installed handler, the
\* handle_termsize_change of that frame's window, calls refresh("signal")
ResizeInterrupt ==
    /\ frames # <<>>
    /\ winch.handler = Top.id
    /\ ShowRefreshes("signal")

\* the action of the selection returns, or goes one menu back
ResizeAction == \E ret \in {NoResult, 5} : ActionReturns(ret)

NextResize ==
    \/ ResizeEnter \/ ResizeLoopTop \/ ResizeKey \/ ResizeHeartbeat
    \/ ResizeInterrupt \/ ResizeAction \/ Propagate \/ Tick

SpecResize == InitResize /\ [][NextResize]_vars

(***************************************************************************)
(* SpecTimeout: one frame with a timeout, waiting for keys                 *)
(***************************************************************************)
\* the frame's window was created at time 0 and its menu is shown
InitTimeout ==
    /\ IsWindow(NewWindow, "new")
    /\ NavIdle
    /\ clock = 0
    /\ app_timeout \in 0..MaxTimeout
    /\ tm_timeout = Deadline(clock, app_timeout)
    /\ tm_pc = "show"
    /\ tm_refreshes = 0
    /\ tm_hist = NoTimeoutHist
    /\ TerminalIdle
    /\ ListenerIdle
    /\ MoreIdle

TimeoutKeyPressed == \E key \in TimeoutKeys : TimeoutKey(key)

NextTimeout == Tick \/ Heartbeat \/ TimeoutKeyPressed \/ Resize \/ Redisplay

SpecTimeout == InitTimeout /\ [][NextTimeout]_vars

(***************************************************************************)
(* SpecTerminal: open and close calls on one RawTerminal                   *)
(***************************************************************************)
\* the modes a terminal can be in before the RawTerminal is used
PriorModes ==
    {[lflag |-> f, stdin_nonblock |-> FALSE, stdout_nonblock |-> nb] :
        f \in {{"ICANON", "ECHO", "ISIG"}, {"ICANON", "ISIG"}, {"ICANON", "ECHO"}},
        nb \in BOOLEAN}

\* a new RawTerminal(blocking) over a terminal in one of the prior modes
InitTerminal ==
    /\ IsWindow(NewWindow, "new")
    /\ NavIdle
    /\ TimeoutIdle
    /\ ListenerIdle
    /\ MoreIdle
    /\ term \in PriorModes
    /\ rt_blocking \in BOOLEAN
    /\ rt_opened = 0
    /\ rt_saved = Unset
    /\ rt_scopes = 0
    /\ rt_prior = term
    /\ rt_last = NoCall
    /\ rt_released = <<>>
    /\ rt_left = NoScope

TerminalOpens == \E failed \in {""} \cup OpenFailures : TerminalOpen(failed)

NextTerminal == TerminalOpens \/ TerminalClose

SpecTerminal == InitTerminal /\ [][NextTerminal]_vars

(***************************************************************************)
(* SpecReleased: closed() scopes (terminal_released) among opens and       *)
(* closes that all succeed                                                 *)
(***************************************************************************)
NextReleased == ReleasedOpen \/ ReleasedClose \/ ClosedEnter \/ ClosedExit

SpecReleased == InitTerminal /\ [][NextReleased]_vars

(***************************************************************************)
(* SpecListener: batches of bytes decoded by keyboard_listener             *)
(***************************************************************************)
\* what ~/.termenu/ansi_mapping can hold: nothing; a new key whose sequence
\* is the front of a default one; a default key remapped to such a
\* sequence; a new key whose sequence extends a ctrl key's
Mappings ==
    {<<>>,
     <<[name |-> "alt_bracket", seq |-> <<"\\x1b", "[">>]>>,
     <<[name |-> "up", seq |-> <<"\\x1b", "[">>]>>,
     <<[name |-> "macro", seq |-> <<"\\x01", "a">>]>>}

Batches == UNION {[1..n -> Bytes] : n \in 1..MaxBatch}

InitListener ==
    /\ IsWindow(NewWindow, "new")
    /\ NavIdle
    /\ TimeoutIdle
    /\ TerminalIdle
    /\ MoreIdle
    /\ \E mapping \in Mappings : kb_table = LoadTable(mapping)
    /\ kb_sequence = <<>>
    /\ kb_last = NoPass
    /\ kb_poll = NoPoll

\* a batch arrives while the listener waits in select()
ListenerReads ==
    /\ kb_sequence = <<>>
    /\ kb_last = NoPass
    /\ \E batch \in Batches \cup {<<>>} : ReadBatch(batch)

NextListener == WaitForInput \/ ListenerReads \/ ListenerHeartbeat \/ ReadNothing \/ Decode

SpecListener == InitListener /\ [][NextListener]_vars

(***************************************************************************)
(* C1                                                                      *)
(***************************************************************************)
\* C1: from cursor = 0, scroll = 0 over n >= 1 visible options and any height
\* h >= 1, after any sequence of up, down, pageUp, pageDown and end moves
\* 0 <= cursor < n, scroll >= 0 and scroll + cursor < n.
C1_MovesKeepCursorInside ==
    /\ 0 <= cursor /\ cursor < Len(options)
    /\ scroll >= 0
    /\ scroll + cursor < Len(options)

\* a move has scrolled the window and the cursor sits on its last row
C1_Witness ==
    /\ lastOp \in MoveKeys
    /\ scroll > 0
    /\ cursor = Min(height, Len(options)) - 1
    /\ cursor > 0

(***************************************************************************)
(* C2 .. C6: the filtering window                                          *)
(***************************************************************************)
\* the window is inside the key loop of show(): _refilter has run since the
\* last reset
InKeyLoop == lastOp \in {"show", "move", "filter", "mark"} /\ raised = ""

\* the visible entries without the synthetic placeholder
VisibleOptions == SelectSeq(options, LAMBDA i : i # 0)

AllIndices == [i \in 1..Len(allOptions) |-> i]

\* C2: after every transition scroll + cursor is the index of an existing
\* entry of the visible list, also when only the placeholder is visible.
C2_ActiveIndexExists ==
    lastOp # "new" => (scroll + cursor >= 0 /\ scroll + cursor < Len(options))

\* the mode's condition on one option, as the claim words it
Satisfies(mode, T, o) ==
    LET has == {t \in T : Contains(o.filter_text, t)} IN
    CASE mode = "and" -> has = T
      [] mode = "or" -> has # {}
      [] mode = "nand" -> has # T
      [] mode = "nor" -> has = {}

\* C3: with a non-empty term set the visible options are, in original order,
\* exactly the options that are showAlways or satisfy the mode's condition.
C3_FilterModes ==
    (InKeyLoop /\ Terms(text) # {}) =>
        VisibleOptions =
            SelectSeq(AllIndices,
                      LAMBDA i : \/ allOptions[i].showAlways
                                 \/ Satisfies(FILTER_MODES[filter_mode_idx + 1],
                                              Terms(text), allOptions[i]))

\* two terms under nand: some option is filtered out and some stays
C3_Witness ==
    /\ lastOp = "filter"
    /\ FILTER_MODES[filter_mode_idx + 1] = "nand"
    /\ Cardinality(Terms(text)) = 2
    /\ Len(VisibleOptions) > 0
    /\ Len(VisibleOptions) < Len(allOptions)
    /\ ~is_empty

\* C4: with an empty term set and at least one option that is not showAlways,
\* every mode shows the full option list, without placeholder, is_empty false.
C4_EmptyTermsPermissive ==
    (/\ InKeyLoop
     /\ Terms(text) = {}
     /\ \E i \in 1..Len(allOptions) : ~allOptions[i].showAlways)
        => (options = AllIndices /\ ~is_empty)

ResultsOf(opts) == {opts[i].result : i \in 1..Len(opts)}

\* C5: across a reset without reseed selection, or a refilter, the selected
\* result values afterwards are the previously selected ones still present.
C5_SelectionPreserved ==
    [][(lastOp' \in {"reset", "filter", "show"} /\ raised' = "")
          => SelectedResults(Win)' =
                SelectedResults(Win) \cap ResultsOf(allOptions')]_vars

\* result of the active entry, NoResult when scroll + cursor is no index
ActiveResult ==
    IF ActiveValid(Win) THEN GetActiveOption(Win).result ELSE NoResult

VisibleResults == {Opt(Win, k).result : k \in 1..Len(options)}

\* C6: after a refilter or a reset the active option is the previously active
\* one if still visible, otherwise the first visible item (cursor 0, scroll 0).
C6_ActiveRestored ==
    [][(lastOp # "new" /\ lastOp' \in {"reset", "filter"} /\ raised' = "")
          => IF ActiveResult \in VisibleResults'
             THEN ActiveResult' = ActiveResult
             ELSE cursor' = 0 /\ scroll' = 0]_vars

(***************************************************************************)
(* Claims about the navigator (SpecNav)                                    *)
(***************************************************************************)
\* a Back raised by a selection action of the innermost of d frames, with
\* 1 <= levels < d
BackFromAction ==
    /\ origin.kind = "Back"
    /\ origin.phase = "action"
    /\ 1 <= origin.levels
    /\ origin.levels < Len(origin.ids)

\* C7: after a selection action of the innermost of d frames raises
\* Back{levels=k, refresh=r} with 1 <= k < d, the signal travels through the
\* k innermost frames, each of which terminates, and no further: while it
\* travels it stays a Back and no more than k frames have ended; once it is
\* handled exactly the d-k outer frames remain, and the innermost of them is at
\* the top of its loop (the only place a menu is displayed from) with
\* self.refresh = r, so that it is the next frame to display and it re-derives
\* its options iff r is truthy.
C7_BackLevels ==
    BackFromAction =>
        LET d == Len(origin.ids)
            k == origin.levels
        IN  IF sig # NoSig
            THEN /\ sig.kind = "Back"
                 /\ sig.refresh = origin.refresh
                 /\ Len(frames) >= d - k
                 /\ sig.levels = k - (d - Len(frames))
                 /\ FrameIds = SubSeq(origin.ids, 1, Len(frames))
            ELSE /\ FrameIds = SubSeq(origin.ids, 1, d - k)
                 /\ escaped = ""
                 /\ Top.pc = "loop"
                 /\ Top.refresh = origin.refresh

\* A->B->C, Back{levels=2, refresh=False} raised by C's action: A resumes
C7_Witness ==
    /\ BackFromAction
    /\ Len(origin.ids) = 3
    /\ origin.levels = 2
    /\ origin.refresh = "False"
    /\ sig = NoSig
    /\ Len(frames) = 1
    /\ Top.pc = "loop"

\* a Quit raised by an action, or while the menu waits for a key, has been
\* handled: it travels no more
QuitUnwound ==
    /\ origin.kind = "Quit"
    /\ origin.phase \in {"action", "show"}
    /\ sig = NoSig

\* C8: when the unwinding of a Quit raised in a frame at depth d ends, every
\* frame has terminated, the signal has not left the outermost frame, and
\* _all_menus and _all_titles are both empty.
C8_QuitUnwindsAll ==
    QuitUnwound =>
        /\ frames = <<>>
        /\ escaped = ""
        /\ all_menus = <<>>
        /\ all_titles = <<>>

\* a frame invocation has just ended after Return{value} was raised in a loop
ReturnEnded ==
    /\ origin.kind = "Return"
    /\ origin.phase \in {"refresh", "show", "action"}
    /\ ended.id # 0

\* C9: when Return{value} is raised inside a frame, the invocation that ends
\* is that frame's, it ends normally (the signal goes no further) with
\* return_value = value, the frames below it keep running, and _all_menus
\* holds exactly the frames that keep running.
C9_ReturnEndsOneFrame ==
    ReturnEnded =>
        /\ sig = NoSig
        /\ escaped = ""
        /\ ended.id = origin.frame
        /\ ended.by = ""
        /\ ended.return_value = origin.value
        /\ FrameIds = Front(origin.ids)
        /\ all_menus = FrameIds

\* C10: when the invocation of a frame ends, however it ends, _all_menus and
\* _all_titles are what they were when the frame was entered.
C10_StackDiscipline ==
    ended.id # 0 =>
        /\ ended.exit_menus = ended.entry_menus
        /\ ended.exit_titles = ended.entry_titles

TerminalRaw == term = RawMode(rt_prior, rt_blocking)

\* C12: for properly nested open and close calls the terminal is raw exactly
\* while the open count is above 0 and in its prior mode when the count is 0;
\* the prior mode is saved by a call iff the call is an open that finds the
\* count at 0, and restored by a call iff the call is a close that finds the
\* count at 1; a call that finds and leaves the count above 0 (an inner open
\* or close) leaves the terminal as it was.
C12_RawWhileOpen ==
    /\ (rt_opened > 0) <=> TerminalRaw
    /\ rt_opened = 0 => term = rt_prior
    /\ rt_last.captured <=> (rt_last.op = "open" /\ rt_last.before = 0)
    /\ rt_last.restored <=> (rt_last.op = "close" /\ rt_last.before = 1)
    /\ (rt_last.before >= 1 /\ rt_opened >= 1) => term = rt_last.term_before

\* C13: an open that raised left the open count as it was before the call,
\* and an open that returned has left the terminal in raw mode, also after
\* an earlier open that raised.
C13_FailedOpenLeavesCount ==
    /\ (rt_last.op = "open" /\ rt_last.failed # "") => rt_opened = rt_last.before
    /\ (rt_last.op = "open" /\ rt_last.failed = "") => TerminalRaw

(***************************************************************************)
(* Claims about the key decoder (SpecListener)                             *)
(***************************************************************************)
\* the sequences of the table that the buffer of the last pass started with
MatchingSequences ==
    {kb_table[i].seq : i \in {j \in 1..Len(kb_table) :
                                 StartsWith(kb_last.buffer, kb_table[j].seq)}}

\* C14: when two sequences of the table, one a proper prefix of the other,
\* both match the front of the pending buffer, the pass emits the event of
\* the longest matching sequence and consumes exactly its bytes, whatever the
\* order of the table.
C14_LongestMatchFirst ==
    (/\ kb_last.buffer # <<>>
     /\ \E s1, s2 \in MatchingSequences : Len(s1) < Len(s2))
        => LET longest == CHOOSE s \in MatchingSequences :
                              \A t \in MatchingSequences : Len(t) <= Len(s)
           IN  /\ kb_last.emitted = <<KeyName(kb_table, longest)>>
               /\ kb_last.consumed = Len(longest)
               /\ kb_sequence = SubSeq(kb_last.buffer, Len(longest) + 1,
                                       Len(kb_last.buffer))

\* C15: when no sequence of the table matches the front of the pending
\* buffer, the pass emits one event, that of the first byte (its literal name
\* or the raw character), consumes that byte only and leaves the remainder
\* pending for sequence matching.
C15_SingleByteFallback ==
    (kb_last.buffer # <<>> /\ MatchingSequences = {})
        => /\ kb_last.emitted =
                 <<IF kb_last.buffer[1] \in DOMAIN LiteralNames
                   THEN LiteralNames[kb_last.buffer[1]]
                   ELSE kb_last.buffer[1]>>
           /\ kb_last.consumed = 1
           /\ kb_sequence = Tail(kb_last.buffer)

(***************************************************************************)
(* Claims about selection marks and the enter key (SpecMarks)              *)
(***************************************************************************)
\* the selected flag of every entry of window w: of option object i, and
\* (at 0) of the placeholder entry
EntryFlags(w) ==
    [i \in 0..Len(w.allOptions) |->
        IF i = 0 THEN w.phSelected ELSE w.allOptions[i].selected]

\* C16: while the window is in the empty state, enter does not end the key
\* loop (so show() yields no selection), and the toggle key and the toggle-all
\* key leave the selected flag of every entry unchanged.
C16_EmptyStateInert ==
    [][(is_empty /\ lastOp \notin {"selected", "aborted"})
          => /\ lastOp' # "selected"
             /\ lastOp' \in {"insert", "*"} => EntryFlags(Win') = EntryFlags(Win)]_vars

\* C19: the toggle key flips the selected flag of the active option if and
\* only if the window is multiselect and the active option is markable; the
\* flag of every other entry is unchanged.
C19_ToggleFlipsActiveOnly ==
    [][lastOp' = "insert"
          => \A i \in 0..Len(allOptions) :
                (EntryFlags(Win')[i] # EntryFlags(Win)[i])
                    <=> /\ multiselect
                        /\ ActiveValid(Win)
                        /\ i = options[scroll + cursor + 1]
                        /\ Markable(GetActiveOption(Win))]_vars

\* the toggle key has just flipped the one mark of a multiselect window
C19_Witness ==
    /\ lastOp = "insert"
    /\ multiselect
    /\ Cardinality({i \in 0..Len(allOptions) : EntryFlags(Win)[i]}) = 1

\* C20: under multiselect the toggle-all key inverts the selected flag of
\* every markable option of the window's option list, shown by the filter or
\* not, and keeps the flag of every other option; without multiselect it
\* changes no flag.
C20_ToggleAllFlipsEveryMarkable ==
    [][lastOp' = "*"
          => IF multiselect
             THEN \A i \in 1..Len(allOptions) :
                     allOptions'[i].selected =
                        (IF Markable(allOptions[i]) THEN ~allOptions[i].selected
                         ELSE allOptions[i].selected)
             ELSE EntryFlags(Win') = EntryFlags(Win)]_vars

(***************************************************************************)
(* Claims about empty item lists and empty selections (SpecNav)            *)
(***************************************************************************)
\* the refresh block of a frame found no items: `return self.result(None)`
EmptyItems ==
    /\ origin.kind = "Return"
    /\ origin.phase = "refresh"
    /\ origin.value = NoResult

\* C17: when a frame re-derives its options and the item source yields no
\* items, the frame terminates at once without displaying a menu (the Return
\* is handled by the frame itself, from the top of its loop), its return
\* value is None, and it is popped from the navigation stack.
C17_EmptyItemsEndFrame ==
    /\ (EmptyItems /\ sig # NoSig)
          => /\ sig = ReturnSignal(NoResult)
             /\ Top.id = origin.frame
             /\ Top.pc = "loop"
    /\ (EmptyItems /\ ended.id # 0)
          => /\ sig = NoSig
             /\ escaped = ""
             /\ ended.id = origin.frame
             /\ ended.by = ""
             /\ ended.return_value = NoResult
             /\ FrameIds = Front(origin.ids)
             /\ origin.frame \notin Range(all_menus)

\* on_selected has called back() for an empty selection
BackOnEmpty == origin.kind = "Back" /\ origin.phase = "nothing"

\* a selection action has raised Back{levels=1, refresh=True}
BackOneFromAction ==
    /\ origin.kind = "Back"
    /\ origin.phase = "action"
    /\ origin.levels = 1
    /\ origin.refresh = "True"

\* what follows a Back{levels=1, refresh=True} raised in the on_selected call
\* of the frame origin.frame: while it is in that frame it is unchanged; it
\* leaves the frame, and only that frame, as Back{levels=0, refresh=True};
\* once handled the frames below are left, and the parent (if any) is at the
\* top of its loop with a truthy self.refresh
BackOneUnwinds ==
    IF sig # NoSig
    THEN \/ /\ sig = BackSignal("True", 1)
            /\ FrameIds = origin.ids
            /\ Top.pc = "action"
         \/ /\ sig = BackSignal("True", 0)
            /\ FrameIds = Front(origin.ids)
    ELSE /\ FrameIds = Front(origin.ids)
         /\ frames # <<>> => Top.pc = "loop" /\ Top.refresh = "True"

C21_DownRunPosition ==
    LET n == Len(options)
        h == height
        k == run.count
    IN  /\ (run.key = "down" /\ run.cursor = 0 /\ run.scroll = 0 /\ h <= n)
              => /\ cursor = Min(k, h - 1)
                 /\ scroll = Min(Max(0, k - (h - 1)), n - h)
        /\ (run.key = "up" /\ run.cursor = h - 1 /\ run.scroll = n - h /\ h <= n)
              => /\ cursor = Max(h - 1 - k, 0)
                 /\ scroll = Max(0, (n - h) - Max(0, k - (h - 1)))

\* down was pressed from the top more often than there are options: the
\* window rests on the last option
C21_Witness ==
    /\ run.key = "down"
    /\ run.cursor = 0
    /\ run.scroll = 0
    /\ height < Len(options)
    /\ height > 1
    /\ run.count > Len(options)
    /\ scroll + cursor = Len(options) - 1

\* the index of the active option
ActiveIndex == scroll + cursor

\* C22: pageDown moves the active position forward by exactly one window
\* height, or to the last option when fewer than a window height of options
\* remain below; pageUp moves it back by exactly one window height, or to the
\* first option; from every cursor position inside the window.
C22_PageMovesFullHeight ==
    [][LET n == Len(options)
           h == Min(height, n)
       IN  /\ lastOp' = "pageDown"
              => ActiveIndex' = (IF ActiveIndex + h <= n - 1
                                 THEN ActiveIndex + h ELSE n - 1)
           /\ lastOp' = "pageUp"
              => ActiveIndex' = (IF ActiveIndex - h >= 0
                                 THEN ActiveIndex - h ELSE 0)]_vars

(***************************************************************************)
(* Claims about the filtered window (SpecWin)                              *)
(***************************************************************************)
\* the rows of the visible list, the placeholder left out, whose option
\* satisfies the filter predicate of window w
SatisfyingRows(w) ==
    {k \in 1..Len(w.options) :
        /\ w.options[k] # 0
        /\ Satisfies(FILTER_MODES[w.filter_mode_idx + 1], Terms(w.text),
                     w.allOptions[w.options[k]])}

\* a key has run _refilter and the active entry it leaves is the one the
\* filter chose: there was no previous active option to restore (the window
\* was empty), or that option is no longer visible
AutoSelected ==
    /\ lastOp' = "filter"
    /\ raised' = ""
    /\ \/ is_empty
       \/ /\ ActiveValid(Win)
          /\ \A k \in 1..Len(options') :
                Opt(Win', k).result # GetActiveOption(Win).result

\* C23: after the filter is applied, a showAlways option that does not satisfy
\* the predicate is never the auto-selected active entry, and a showAlways
\* option that is the first visible option satisfying the predicate becomes
\* the active entry, the window not being in the empty state.
C23_ShowAlwaysEligibleIfMatching ==
    [][AutoSelected
          => LET rows == SatisfyingRows(Win')
                 first == CHOOSE k \in rows : \A j \in rows : k <= j
             IN  /\ (~is_empty' /\ ActiveValid(Win'))
                       => ~(/\ GetActiveOption(Win').showAlways
                            /\ scroll' + cursor' + 1 \notin rows)
                 /\ (rows # {} /\ Opt(Win', first).showAlways)
                       => /\ ~is_empty'
                          /\ scroll' + cursor' + 1 = first]_vars

(***************************************************************************)
(* Claims about the window's height (SpecMarks)                            *)
(***************************************************************************)
\* C24 as stated: after every transition, including a filter change that
\* shrinks the visible list, the window's height is at most the number of
\* currently visible options.
C24_HeightWithinVisible == height <= Len(options)

\* C24 amended: after every transition, including a filter change that
\* shrinks the visible list, the window's height is at most the number of
\* options of the window's option list, visible or filtered out.
C24_HeightWithinOptionList == height <= Len(allOptions)

\* a filter key has left fewer visible entries than the window is high
C24_Witness ==
    /\ lastOp \in KeyChars
    /\ raised = ""
    /\ Len(options) < height

(***************************************************************************)
(* Claims about signals leaving the session (SpecNav)                      *)
(***************************************************************************)
\* C25: Retry, Back and Return never propagate out of the outermost frame's
\* invocation, in whichever phase of a frame's loop they are raised; of the
\* navigation signals only Quit and Timeout can reach the caller of the
\* outermost frame.
C25_NavigationSignalsStayInside == escaped \notin {"Retry", "Back", "Return"}

(***************************************************************************)
(* Claims about Retry (SpecRetry)                                          *)
(***************************************************************************)
\* C26: when a selection action raises Retry{refresh, reseed=S} the same
\* frame displays again; if S is given, on that redisplay exactly the options
\* whose results are in S are selected, in every prior window state.
C26_RetryReseedsSelection ==
    (lastOp = "retry" /\ loop.given)
        => /\ raised = ""
           /\ \A i \in 1..Len(allOptions) :
                 allOptions[i].selected <=> allOptions[i].result \in loop.selection

(***************************************************************************)
(* Claims about Colorized strings (SpecColors)                             *)
(***************************************************************************)
\* C27: for every markup s and all 0 <= i <= j <= len(Colorized(s)), empty
\* slices (i = j, and j = 0) included, the plain projection of
\* Colorized(s)[i:j] is plain(s)[i:j].
C27_SlicePlain ==
    ct_slice.taken
        => ct_slice.uncolored = PySlice(ct_obj.uncolored, ct_slice.i, ct_slice.j)

\* C28: for every markup s the raw forms of the tokens of Colorized(s), in a
\* row, are s, also when a colored region spans several lines, and their
\* plain forms in a row are the plain projection used for the length.
C28_TokensReconstructMarkup ==
    ct_obj.made
        => /\ Concat([k \in 1..Len(ct_obj.tokens) |-> TokenRaw(ct_obj.tokens[k])])
                 = ct_text
           /\ Plain(ct_obj.tokens) = ct_obj.uncolored

(***************************************************************************)
(* Claims about who receives input (SpecNav)                               *)
(***************************************************************************)
\* the frames inside menu.show, waiting for key events
Consuming == {i \in 1..Len(frames) : frames[i].pc = "show"}

\* C29: at every moment at most one frame is consuming key events, and that
\* frame is the top of the navigation stack; a frame that is not the top
\* receives no key event until every frame above it has terminated.
C29_OnlyTopConsumesKeys ==
    /\ Cardinality(Consuming) <= 1
    /\ \A i \in Consuming :
          /\ i = Len(frames)
          /\ Last(all_menus) = frames[i].id

(***************************************************************************)
(* Claims about terminal resizes (SpecResize)                              *)
(***************************************************************************)
\* the resize is handled by the top frame only: no frame is pushed or popped
\* and the frames below are as they were
HandledByTopOnly ==
    /\ all_menus' = all_menus
    /\ Len(frames') = Len(frames)
    /\ Front(frames') = Front(frames)

\* the frame restarts its loop with a truthy self.refresh: the options are
\* re-derived and the menu is drawn again
RefreshesAtOnce ==
    /\ sig' = NoSig
    /\ Top'.pc = "loop"
    /\ Top'.refresh = "signal"

\* a frame's handler is installed only while that frame is inside menu.show
HandlerOnlyWhileShowing ==
    winch.handler # 0
        => /\ frames # <<>>
           /\ Top.id = winch.handler
           /\ Top.pc = "show"
           /\ sig = NoSig

\* a step that leaves menu.show puts back the handler that show found
ShowExitRestores ==
    (winch.handler # 0 /\ ~(winch'.handler # 0 /\ winch' = winch))
        => winch'.handler = winch.saved

TimeoutFromShow == origin.kind = "Timeout" /\ origin.phase = "show"

\* C31: a Timeout raised by the window of a frame at depth d ends that frame
\* and each of its d-1 ancestors, none of them displaying its menu again; on
\* the way it is never turned into a Back, Quit or Return, and it leaves the
\* outermost frame's invocation as AppMenu.TimeoutSignal.
C31_TimeoutUnwindsAll ==
    TimeoutFromShow =>
        IF sig # NoSig
        THEN /\ sig = TimeoutSignal
             /\ frames # <<>>
             /\ FrameIds = SubSeq(origin.ids, 1, Len(frames))
             /\ \A i \in 1..Len(frames) :
                   frames[i].pc = IF i = Len(origin.ids) THEN "show" ELSE "action"
             /\ winch.handler = 0
             /\ escaped = ""
        ELSE /\ frames = <<>>
             /\ escaped = "Timeout"

\* A->B->C, C's window timed out: all three frames have ended
C31_Witness ==
    /\ TimeoutFromShow
    /\ Len(origin.ids) = 3
    /\ frames = <<>>
    /\ escaped = "Timeout"

\* application code called while the frame's menu is shown (an on_<key> hook)
\* or while its options are re-derived raised Back{levels=1} in a frame that
\* has a parent, and the signal has been handled
BackOneOutsideAction ==
    /\ origin.kind = "Back"
    /\ origin.levels = 1
    /\ origin.phase \in {"show", "refresh"}
    /\ Len(origin.ids) >= 2
    /\ sig = NoSig

\* C32: Back{levels=1} raised by application code in a frame's show phase or
\* refresh phase ends only that frame, and its parent resumes its loop, as
\* when a selection's action of that frame raises it.
C32_BackOneOutsideAction ==
    BackOneOutsideAction =>
        /\ FrameIds = SubSeq(origin.ids, 1, Len(origin.ids) - 1)
        /\ escaped = ""
        /\ Top.pc = "loop"

(***************************************************************************)
(* Claims about a frame's redisplays (SpecLoop)                            *)
(***************************************************************************)
\* a step that displays the frame's menu again
Redisplayed == lastOp' \in {"refresh", "show", "retry"}

\* C33: the configured default positions the cursor only on the first
\* display; on every later redisplay with unchanged options (after a
\* heartbeat, F5, a resize, a Retry or a completed action) the active option
\* is the one that was active just before, also when nothing was selected yet.
C33_RedisplayKeepsActive ==
    [][ (Redisplayed /\ raised' = "" /\ ActiveValid(Win))
            => /\ ActiveValid(Win')
               /\ GetActiveOption(Win').result = GetActiveOption(Win).result ]_vars

\* C37: the reseed selection carried by a Retry is applied only to the
\* redisplay that directly follows it: on a later refresh of the frame that no
\* new Retry causes (heartbeat, F5, resize, a completed action) the selected
\* set is the one the user had just before the refresh.
C37_ReseedOnlyOnce ==
    [][ (lastOp' \in {"refresh", "show"} /\ raised' = "")
            => SelectedResults(Win') = SelectedResults(Win) ]_vars

(***************************************************************************)
(* Claims about the flags of the drawn rows (SpecMarks)                    *)
(***************************************************************************)
\* the toggle key pressed with the cursor on row `index` flips the selected
\* flag of that row's option
ToggleFlipsRow(w, index) ==
    LET k == w.scroll + index + 1 IN
    Opt(OnInsert([w EXCEPT !.cursor = index]), k).selected # Opt(w, k).selected

\* C34: under multiselect the markable flag computed for a drawn row is true
\* exactly when the toggle key on that row would flip its selected flag, that
\* is exactly when the row's option is markable (markable attribute not false,
\* and selectable).
C34_MarkableFlagMeansToggle ==
    (multiselect /\ raised = "")
        => \A index \in Rows(Win) :
              /\ DecorateFlags(Win, index).markable
                    <=> Markable(Opt(Win, scroll + index + 1))
              /\ DecorateFlags(Win, index).markable <=> ToggleFlipsRow(Win, index)

(***************************************************************************)
(* Claims about the esc key (SpecEsc)                                      *)
(***************************************************************************)
\* the number of separator-delimited segments of the filter text, 0 when no
\* filter is active (self.text is None)
EscSegments(w) == IF w.text_none THEN 0 ELSE Len(Split(w.text))

RECURSIVE AbortsWithin(_, _)
\* at most n esc presses in a row, starting in window w, abort the menu
AbortsWithin(w, n) ==
    /\ n > 0
    /\ \/ EscStops(w)
       \/ /\ OnEsc(w).raised = ""
          /\ AbortsWithin(OnEsc(w), n - 1)

\* the key loop is still running in the state after the step
KeyLoopRuns == raised' = "" /\ lastOp' \notin {"selected", "aborted"}

AtPoll == kb_poll = NoPoll

\* every byte read since the last select() is either accounted for by an
\* event already emitted or still pending, in the order read
BytesAccounted == kb_poll.accounted \o kb_sequence = kb_poll.read

\* a pass over a non-empty buffer emits an event and consumes a byte
PassAdvances ==
    kb_last.buffer # <<>>
        => /\ kb_last.consumed >= 1
           /\ kb_last.emitted # <<>>
           /\ Len(kb_last.emitted) = Len(kb_last.accounts)
           /\ Concat(kb_last.accounts) = SubSeq(kb_last.buffer, 1, kb_last.consumed)

\* a heartbeat is the one event of a select() that timed out
HeartbeatOnlyOnTimeout ==
    (\E k \in 1..Len(kb_last.emitted) : kb_last.emitted[k] = "heartbeat")
        => /\ kb_last.emitted = <<"heartbeat">>
           /\ kb_last.buffer = <<>> /\ kb_last.consumed = 0
           /\ kb_last.accounts = <<>>
           /\ kb_poll.read = <<>> /\ kb_sequence = <<>>

\* C36: the bytes accounted for by the emitted non-heartbeat events, in
\* order, followed by the bytes still pending, are the bytes read, and when
\* the buffer is drained they are exactly the bytes read; every pass over a
\* non-empty buffer consumes at least one byte, so no byte sequence stops the
\* decoder; a heartbeat is emitted only by a select() that timed out with no
\* bytes and accounts for none; the pending buffer is empty at every select().
C36_EveryByteAccounted ==
    /\ BytesAccounted
    /\ kb_sequence = <<>> => kb_poll.accounted = kb_poll.read
    /\ PassAdvances
    /\ HeartbeatOnlyOnTimeout
    /\ AtPoll => kb_sequence = <<>>

\* a full batch was decoded in more than one pass, by a sequence match and
\* by the byte-by-byte fallback, and is accounted for to the last byte
C36_Witness ==
    /\ Len(kb_poll.read) = MaxBatch
    /\ kb_sequence = <<>>
    /\ kb_poll.accounted = kb_poll.read
    /\ kb_last.consumed < MaxBatch
    /\ Len(kb_last.emitted) >= 2

\* a select() that timed out has yielded its heartbeat
C36_HeartbeatWitness ==
    /\ kb_last.emitted = <<"heartbeat">>
    /\ kb_poll = [NoPoll EXCEPT !.polled = TRUE]

(***************************************************************************)
(* Claims about RawTerminal.closed() (SpecReleased)                        *)
(***************************************************************************)
\* C38: when a closed() scope has just been left, the terminal and the open
\* count are what they were when the scope was entered, whatever the count
\* was then (0 included), and the terminal is raw iff the count is above 0.
C38_ClosedScopeRestores ==
    rt_left.left
        => /\ rt_opened = rt_left.opened
           /\ term = rt_left.term
           /\ (rt_opened > 0) <=> TerminalRaw

(***************************************************************************)
(* Claims about what a selection's action returns (SpecNav)                *)
(***************************************************************************)
\* the top frame runs its selection's action and no signal is in flight
InAction == sig = NoSig /\ frames # <<>> /\ Top.pc = "action"

\* the action of the top frame hands back a value without raising and
\* without opening a menu: the step leaves the stack as deep as it was
ActionCameBack == InAction /\ frames' # frames /\ Len(frames') = Len(frames)

\* result(v) was called for the value v the action returned (or the action
\* raised Return{v} itself) and the signal is about to reach the handlers
ReturnInAction ==
    /\ sig.kind = "Return" /\ frames # <<>> /\ Top.pc = "action"
    /\ origin.phase = "action" /\ origin.frame = Top.id

\* C39: a value that is not None, returned by the action of a selection,
\* travels as Return{v}: the frame that ran the action ends normally with
\* return_value v, the frames under it stay and no signal goes on; an action
\* that returns None leaves its frame on the stack, at the top of its loop
\* with a refresh.
C39_ReturnedValueEndsFrame ==
    [][ /\ (ActionCameBack /\ sig' = NoSig)
            => /\ FrameIds' = FrameIds
               /\ Last(frames').pc = "loop"
               /\ Last(frames').refresh = "second"
               /\ Truthy(Last(frames').refresh)
        /\ (InAction /\ sig' # NoSig /\ sig'.kind = "Return" /\ sig'.value # NoResult)
            => /\ frames' = frames
               /\ sig' = ReturnSignal(sig'.value)
               /\ origin' = Raised(sig', "action")
        /\ (ReturnInAction /\ sig.value # NoResult)
            => /\ frames' = Front(frames)
               /\ ended'.id = Top.id
               /\ ended'.by = ""
               /\ ended'.return_value = sig.value
               /\ sig' = NoSig
               /\ escaped' = escaped ]_vars

\* a menu opened by the action of another has ended with the value its own
\* action returned, and the frame under it is still running its action
C39_Witness ==
    /\ ended.id = origin.frame
    /\ origin.kind = "Return" /\ origin.phase = "action"
    /\ ended.return_value = 5
    /\ frames # <<>> /\ Top.pc = "action" /\ sig = NoSig

\* an action has returned None: its frame is back at the top of its loop, to
\* refresh
C39_NoneWitness ==
    /\ frames # <<>> /\ sig = NoSig
    /\ Top.pc = "loop" /\ Top.refresh = "second"

(***************************************************************************)
(* Claims about the default of the basic Termenu (SpecBasic)               *)
(***************************************************************************)
\* the menu was constructed with a height of at least 1 and, as default, the
\* text of one of its options
DefaultIsOption ==
    /\ bt.made /\ bt.raised = ""
    /\ bt.height_arg >= 1
    /\ bt.default.kind = "str"
    /\ BasicGetIndex(bt.options, bt.default.texts) # -1

\* C40: after the construction of a basic Termenu over n >= 1 options with
\* height h >= 1 and the text of the option at index i as default,
\* scroll + cursor = i, 0 <= cursor < min(h, n) and scroll + min(h, n) <= n.
C40_DefaultIsActiveAndVisible ==
    DefaultIsOption
        => LET n == Len(bt.options)
               shown == Min(bt.height_arg, n)
               i == BasicGetIndex(bt.options, bt.default.texts)
           IN  /\ bt.scroll + bt.cursor = i
               /\ 0 <= bt.cursor /\ bt.cursor < shown
               /\ bt.scroll + shown <= n
=============================================================================
